---- MODULE Spec2Model ----
(***************************************************************************)
(* Order / payment reconciliation core of the SMS reseller backend:        *)
(* the manual-order approval flow (routes/adminOrders.js), the deposit     *)
(* approval flow (admin deposits router), the admin balance adjustment,    *)
(* manual-order and deposit creation with their number allocators, the     *)
(* provider status reconciliation (cron sweep, user refresh, admin         *)
(* refresh), and the account routes that write the same collections        *)
(* (registration, creation of a user by the admin, change of password,     *)
(* ban, password reset, deletion of a user, notifications).  These are all *)
(* the writers of the User, Order, Transaction, Notification and           *)
(* PasswordReset collections; the RefreshToken collection and the service  *)
(* catalogue are not part of the state.                                    *)
(*                                                                         *)
(* Every request handler is an async function: each `await` of a database  *)
(* or provider call is one atomic step, and handlers of different          *)
(* requests interleave between steps.  `findById(...).populate(...)` is    *)
(* two queries, hence two steps; the operations of a `Promise.all` take    *)
(* effect one by one and are not cancelled when one of them rejects.  A    *)
(* document loaded by a handler is a private copy; `save()` writes back    *)
(* only the paths the handler modified (Mongoose `$set` of modified        *)
(* paths, no version check).  An awaited query or save can be rejected by  *)
(* the database: in the reconciliation each step carries that outcome      *)
(* itself, in the other routes it is the step Fail.                        *)
(* Money is counted in whole currency units.                               *)
(***************************************************************************)
EXTENDS Integers, Sequences, FiniteSets, TLC

\* ------------------------------------------------------------- bounds
\* Number of requests started in one behaviour.
MaxCalls == 2
\* Number of manual orders already created (pending) in the initial database.
MaxSeed == 2
\* Number of provider orders in the initial database of the reconciliation runs.
SeedProviderOrders == 1
\* Number of times the provider changes an answer in one behaviour.
MaxProviderSteps == 1

\* ------------------------------------------------------------- inputs
Users == {"u1"}
Workers == {1, 2}
\* Service.userPrice of the services on sale, and the quantities ordered.
Prices == {2}
\* req.body.service: a service on sale, given by its price, or an id that names no service
Services == Prices \cup {0 - 1}
Quantities == {1, 2}
\* req.body.amount of POST /deposit (Joi: positive number).
DepositAmounts == {1, 2}
\* req.body.amount of POST /:id/balance (0 is rejected as invalid).
AdjustAmounts == {-1, 0, 2}
\* req.body.notes / req.body.reason ("" = not given).
Notes == {"", "text"}
\* the authenticated callers of the user routes: the users, and an account that owns no order
Callers == Users \cup {"other"}

VARIABLES
  users,     \* the User collection: the stored users and their fields other than balance
  resets,    \* the PasswordReset collection: the stored tokens and their users
  balance,   \* User.balance, per user (of a deleted user: the value it last had)
  orders,    \* the Order collection: sequence of documents, _id = index
  txns,      \* the Transaction collection: sequence of documents, _id = index
  notifs,    \* the Notification collection, in creation order
  counter,   \* value of the Counter document {name: "orders"}
  provider,  \* the external provider: its current status answer per provider order id
  nprov,     \* number of times the provider changed an answer
  inflight,  \* the deleteMany operations sent to the database whose result no handler awaits
  proc,      \* the request each worker is handling and the handler's locals
  ncalls,    \* number of requests started so far
  applied,   \* history: per Transaction, how often a handler moved its amount into a balance
  ledger,    \* history: per user, initial balance plus every delta a handler applied
  adjusted,  \* history: an admin adjustment has written a balance
  burnt      \* history: order numbers allocated to a creation that failed before its insert

vars == <<users, resets, balance, orders, txns, notifs, counter, provider, nprov, inflight,
          proc, ncalls, applied, ledger, adjusted, burnt>>

\* the accounts: users and their reset tokens
acct == <<users, resets>>
db == <<acct, balance, orders, txns, notifs, counter>>
hist == <<applied, ledger, adjusted, burnt>>
\* what goes on outside the handlers: the provider, and the operations left in flight
env == <<provider, nprov, inflight>>

\* ------------------------------------------------------------- documents
PendingApproval == "Pending Admin Approval"

\* Order.create({... provider: "manual", status: "Pending Admin Approval" ...})
\* start_count and remains stay undefined (NULL); currency: "USD"
NULL == 0 - 1

ManualOrder(u, cost, num) ==
  [userId |-> u, provider |-> "manual", providerOrder |-> 0,
   status |-> PendingApproval, charge |-> cost, start_count |-> NULL,
   remains |-> NULL, currency |-> "USD", adminNotes |-> "",
   orderNumber |-> num]

\* an order placed with the provider (schema defaults: provider 'secsers', status 'Pending');
\* po = 0: the order carries no providerOrder id
ProviderOrder(u, po, st, num) ==
  [userId |-> u, provider |-> "secsers", providerOrder |-> po,
   status |-> st, charge |-> NULL, start_count |-> NULL,
   remains |-> NULL, currency |-> "USD", adminNotes |-> "",
   orderNumber |-> num]

NoDoc == ProviderOrder("", 0, "", 0)

\* Transaction.create({type: "order", status: "pending", reference: `manual-order:${id}`})
OrderTxn(u, cost, oid, num) ==
  [userId |-> u, type |-> "order", amount |-> cost, status |-> "pending",
   reference |-> oid, orderNumber |-> num, rejectReason |-> ""]

\* Transaction.create({type: "deposit", reference, status: "pending", orderNumber});
\* ref is req.body.reference: 0 = a text that names no order, o = `manual-order:${id of order o}`,
\* -o = that text for an order o that has been deleted
DepositTxn(u, amt, num, st, ref) ==
  [userId |-> u, type |-> "deposit", amount |-> amt, status |-> st,
   reference |-> ref, orderNumber |-> num, rejectReason |-> ""]

Abs(n) == IF n < 0 THEN -n ELSE n

\* Transaction.create({type: "adjustment", amount: Math.abs(amount), status: "completed"})
AdjustTxn(u, amt) ==
  [userId |-> u, type |-> "adjustment", amount |-> Abs(amt), status |-> "completed",
   reference |-> 0, orderNumber |-> 0, rejectReason |-> ""]

\* a registered user: role and banned take the schema defaults; the password is the one
\* chosen at registration (password: 0, or the reset token with which it was last
\* replaced, or NewPassword after a change of password)
NewUser == [banned |-> FALSE, password |-> 0, role |-> "user"]

IdleProc ==
  [op |-> "idle", pc |-> "idle", id |-> 0, usr |-> "", amt |-> 0, rd |-> 0,
   tx |-> 0, tst |-> "", note |-> "", res |-> "",
   doc |-> NoDoc, st |-> NoDoc, queue |-> <<>>,
   ref |-> 0,    \* req.body.reference of a deposit request
   flag |-> FALSE,  \* req.body.banned
   tok |-> 0,       \* the reset token created or presented
   was |-> FALSE,   \* the loaded value of the flag the handler sets
   pop |-> TRUE,    \* populate('userId') found the user
   gone |-> {},     \* the collections whose documents, loaded or created by this handler,
                    \* were deleted since
   left |-> {},     \* the deleteMany operations of Promise.all that have not resolved yet
   b0 |-> 0,     \* history: the balance of the user concerned when the request arrived
   arg |-> "",   \* history: req.body.notes / req.body.reason as sent
   price |-> 0,  \* history: the service's userPrice
   qty |-> 0,    \* history: req.body.quantity
   skipped |-> {},  \* history: the orders of this cycle whose status call gave no status
   unsaved |-> {},  \* history: the orders of this cycle whose save the database refused
   got |-> {}]      \* history: the statuses the provider reported to this handler, and when

Done(op, id, res) ==
  [IdleProc EXCEPT !.op = op, !.pc = "done", !.id = id, !.res = res]

Busy(p) == proc[p].pc \notin {"idle", "done"}

\* User.findById(u) / User.findOne({email}) finds a document
Exists(u) == u \in DOMAIN users

\* A request is taken by worker 1 when it is free, and by worker 2 when it
\* arrives while worker 1 is suspended in a handler.
Free(p) == ~Busy(p) /\ ncalls < MaxCalls /\ (p = 1 \/ Busy(1))

\* ------------------------------------------------------------- queries
Max(S) == CHOOSE x \in S : \A y \in S : y <= x

\* Balance of the seeded user: covers one seeded order, not two of them.
SeedBalance == Max(Prices) + 1

\* Transaction.findOne({ reference: `manual-order:${order._id}` }): 0 when none
TxnByReference(oid) ==
  LET hits == {i \in 1..Len(txns) : txns[i].reference = oid}
  IN IF hits = {} THEN 0 ELSE CHOOSE i \in hits : \A j \in hits : i <= j

\* Transaction.findOne({type:'deposit'}).sort({orderNumber:-1}); then
\* lastTx?.orderNumber ? lastTx.orderNumber + 1 : 1
\* (an orderNumber of 0 is an absent field; both it and NaN are falsy)
NextDepositNumber(ts) ==
  LET nums == {ts[i].orderNumber : i \in {j \in 1..Len(ts) : ts[j].type = "deposit"}}
  IN IF nums = {} \/ Max(nums) < 1 THEN 1 ELSE Max(nums) + 1

\* the result of undefined + 1 and of NaN + 1
NaN == 0 - 2

\* the hook's condition without its type test
NeedsDepositNumber_AnyType(doc) == doc.orderNumber < 1

\* this.isNew && this.type === "deposit" && !this.orderNumber  (Transaction pre-save hook)
NeedsDepositNumber(doc) == doc.type = "deposit" /\ doc.orderNumber < 1

\* const last = findOne({type: "deposit"}).sort({orderNumber: -1});
\* last ? last.orderNumber + 1 : 1    -- the test is on the document, not on its number
HookNumber(ts) ==
  LET nums == {ts[i].orderNumber : i \in {j \in 1..Len(ts) : ts[j].type = "deposit"}}
  IN IF nums = {} THEN 1 ELSE IF Max(nums) < 1 THEN NaN ELSE Max(nums) + 1

\* transactionSchema.pre("save"): number a new deposit that carries no orderNumber
PreSave(doc, ts) ==
  IF NeedsDepositNumber(doc) THEN [doc EXCEPT !.orderNumber = HookNumber(ts)] ELSE doc

\* the guard without its status test
AwaitingApproval_AnyStatus(o) == o.provider = "manual"

\* the shared guard of confirm and reject (adminOrders.js 117-120, 172-175)
AwaitingApproval(o) == o.provider = "manual" /\ o.status = PendingApproval

\* req.body.notes || 'Confirmed by admin'
OrDefault(text, dflt) == IF text = "" THEN dflt ELSE text

\* user.balance >= order.charge
Covers(bal, charge) == bal >= charge

\* the deduction applied with the wrong sign
Debit_Add(bal, charge) == bal + charge

\* user.balance -= Number(order.charge || 0)
Debit(bal, charge) == bal - charge

\* the credit applied with the wrong sign
Credit_Subtract(bal, amt) == bal - amt

\* user.balance += tx.amount ; user.balance += Number(amount)
Credit(bal, amt) == bal + amt

\* ------------------------------------------------------------- initial database
\* The database after a user was funded with one confirmed deposit of b,
\* created k manual orders of one unit of a service, and requested one
\* further deposit that is still pending.
SeedTxns(u, b, k) ==
  <<DepositTxn(u, b, 1, "completed", 0)>>
  \o [i \in 1..k |-> OrderTxn(u, Max(Prices), i, i)]
  \o <<DepositTxn(u, Max(DepositAmounts), 2, "pending", 0)>>

SeedOrders(u, k) == [i \in 1..k |-> ManualOrder(u, Max(Prices), i)]

\* Either the empty database of a fresh installation (users have balance 0),
\* or the database seeded as above.
Init ==
  /\ \/ /\ balance = [x \in Users |-> 0]
        /\ orders = <<>>
        /\ txns = <<>>
        /\ applied = <<>>
        /\ counter = 0
     \/ \E u \in Users :
        /\ balance = [x \in Users |-> IF x = u THEN SeedBalance ELSE 0]
        /\ orders = SeedOrders(u, MaxSeed)
        /\ txns = SeedTxns(u, SeedBalance, MaxSeed)
        /\ applied = [i \in 1..(MaxSeed + 2) |-> IF i = 1 THEN 1 ELSE 0]
        /\ counter = MaxSeed
  /\ provider = <<>>
  /\ nprov = 0
  /\ notifs = <<>>
  /\ proc = [p \in Workers |-> IdleProc]
  /\ ncalls = 0
  /\ users = [x \in Users |-> NewUser]
  /\ resets = {}
  /\ inflight = {}
  /\ ledger = balance
  /\ adjusted = FALSE
  /\ burnt = {}

\* ------------------------------------------------------------- helpers of the steps
Set(p, rec) == proc' = [proc EXCEPT ![p] = rec]
Goto(p, label) == proc' = [proc EXCEPT ![p].pc = label]
At(p, op, label) == proc[p].op = op /\ proc[p].pc = label

\* Notification.create({userId, title, message}); the message names the order or deposit
Notify(u, title, ref) ==
  notifs' = Append(notifs, [userId |-> u, title |-> title, ref |-> ref, old |-> "", new |-> "",
                            read |-> FALSE])

\* a handler moved the amount of transaction t into the balance of user u
\* (t = 0: the transaction is no longer stored)
Moved(t, u, delta) ==
  /\ applied' = IF t = 0 THEN applied ELSE [applied EXCEPT ![t] = @ + 1]
  /\ ledger' = [ledger EXCEPT ![u] = @ + delta]
  /\ UNCHANGED <<adjusted, burnt>>

\* app.use((err, _req, res, _next) => { const status = err?.status || 400; ... }):
\* the answer to an error passed to next(e); status "" = the error carries none
\* (the errors of the database, of the mailer and of the language carry none)
ErrorHandler(status) == IF status = "" THEN "400" ELSE status

\* the answer of a handler's catch: next(e) in every route but change-password,
\* whose own catch answers res.status(500)
Caught(op, status) == IF op = "changePassword" THEN "500" ELSE ErrorHandler(status)

\* the status an error of the provider call (axios) carries: none, or, with a
\* release of axios that copies it to the error, the HTTP status of the
\* provider's response
CallErrors == {"", "503"}

\* An awaited call rejected (save() of a deleted document: DocumentNotFoundError) or
\* the code after it threw (a property of a null user: TypeError): catch (e) { next(e) };
\* note records the step at which the handler was left
Thrown(p) ==
  [Done(proc[p].op, proc[p].id, Caught(proc[p].op, "")) EXCEPT !.usr = proc[p].usr, !.rd = proc[p].rd,
     !.amt = proc[p].amt, !.b0 = proc[p].b0, !.note = proc[p].pc, !.pop = proc[p].pop,
     !.gone = proc[p].gone]

\* the transaction a handler holds, when it is still stored
HeldTxn(p) == IF "txns" \in proc[p].gone THEN 0 ELSE proc[p].tx

\* `manual-order:${id}` of an order that is no longer stored: the text names the
\* deleted order o, never an order stored later at the same place of the collection
Dangling(o) == 0 - o

\* the reference text for the order o a handler holds or was given
RefOf(p, o) == IF "orders" \in proc[p].gone /\ o > 0 THEN Dangling(o) ELSE o

\* ------------------------------------------------------------- POST /api/admin/orders/:id/confirm
\* Order.findById(id): the first query of findById(...).populate('userId'); no
\* document, no second query: 404
OrderConfirm_Find(p, o, notes) ==
  /\ Free(p)
  /\ ncalls' = ncalls + 1
  /\ IF o > Len(orders)
       THEN Set(p, Done("orderConfirm", o, "404"))
       ELSE Set(p, [IdleProc EXCEPT !.op = "orderConfirm", !.pc = "populate", !.id = o,
                      !.doc = orders[o], !.usr = orders[o].userId, !.amt = orders[o].charge,
                      !.b0 = balance[orders[o].userId], !.arg = notes])
  /\ UNCHANGED <<env, db, hist>>

\* .populate('userId', ...): the second query loads the user (null when it is not
\* stored), then the guards run on the order as it was loaded
OrderConfirm_Populate(p) ==
  /\ At(p, "orderConfirm", "populate")
  /\ IF ~AwaitingApproval(proc[p].doc)
       THEN Set(p, Done("orderConfirm", proc[p].id, "400"))
       ELSE proc' = [proc EXCEPT ![p].pc = "saveOrder", ![p].pop = Exists(proc[p].usr),
                                 ![p].note = OrDefault(proc[p].arg, "Confirmed by admin")]
  /\ UNCHANGED <<env, db, ncalls, hist>>

\* order.status = 'Completed'; order.adminNotes = ...; await order.save()
OrderConfirm_SaveOrder(p) ==
  /\ At(p, "orderConfirm", "saveOrder")
  /\ IF "orders" \in proc[p].gone
       THEN Set(p, Thrown(p)) /\ UNCHANGED orders
       ELSE /\ orders' = [orders EXCEPT ![proc[p].id].status = "Completed",
                                        ![proc[p].id].adminNotes = proc[p].note]
            /\ Goto(p, "findTxn")
  /\ UNCHANGED <<env, acct, balance, txns, notifs, counter, ncalls, hist>>

\* const txn = await Transaction.findOne({ reference }); if (txn) { ... }
\* Both continuations start by reading order.userId._id, which throws when the
\* populated user is null.
OrderConfirm_FindTxn(p) ==
  /\ At(p, "orderConfirm", "findTxn")
  /\ LET t == TxnByReference(RefOf(p, proc[p].id)) IN
       IF ~proc[p].pop
         THEN Set(p, Thrown(p))
         ELSE IF t = 0
           THEN Goto(p, "notify")
           ELSE proc' = [proc EXCEPT ![p].pc = "findUser", ![p].tx = t, ![p].tst = txns[t].status]
  /\ UNCHANGED <<env, db, ncalls, hist>>

\* const user = await User.findById(...); if (user && user.balance >= order.charge)
OrderConfirm_FindUser(p) ==
  /\ At(p, "orderConfirm", "findUser")
  /\ IF Exists(proc[p].usr) /\ Covers(balance[proc[p].usr], proc[p].amt)
       THEN proc' = [proc EXCEPT ![p].pc = "saveUser", ![p].rd = balance[proc[p].usr]]
       ELSE Goto(p, "saveTxn")
  /\ UNCHANGED <<env, db, ncalls, hist>>

\* user.balance -= Number(order.charge || 0); await user.save()
OrderConfirm_SaveUser(p) ==
  /\ At(p, "orderConfirm", "saveUser")
  /\ IF ~Exists(proc[p].usr)
       THEN Set(p, Thrown(p)) /\ UNCHANGED <<balance, hist>>
       ELSE /\ balance' = IF proc[p].amt = 0 THEN balance  \* same value: path not modified, no write
                          ELSE [balance EXCEPT ![proc[p].usr] = Debit(proc[p].rd, proc[p].amt)]
            /\ Moved(HeldTxn(p), proc[p].usr, 0 - proc[p].amt)
            /\ Goto(p, "saveTxn")
  /\ UNCHANGED <<env, acct, orders, txns, notifs, counter, ncalls>>

\* txn.status = 'completed'; await txn.save()  (a write only when the loaded status differs)
OrderConfirm_SaveTxn(p) ==
  /\ At(p, "orderConfirm", "saveTxn")
  /\ IF "txns" \in proc[p].gone
       THEN Set(p, Thrown(p)) /\ UNCHANGED txns
       ELSE /\ txns' = IF proc[p].tst = "completed" THEN txns
                       ELSE [txns EXCEPT ![proc[p].tx].status = "completed"]
            /\ Goto(p, "notify")
  /\ UNCHANGED <<env, acct, balance, orders, notifs, counter, ncalls, hist>>

\* await Notification.create({ userId: order.userId._id, title: 'Order Confirmed', ... })
OrderConfirm_Notify(p) ==
  /\ At(p, "orderConfirm", "notify")
  /\ Notify(proc[p].usr, "Order Confirmed", proc[p].id)
  /\ Goto(p, "mail")
  /\ UNCHANGED <<env, acct, balance, orders, txns, counter, ncalls, hist>>

\* try { await sendMail(...) } catch (mailErr) { log }; res.json(...): the answer is
\* the same whether the mail was sent or not
OrderConfirm_Mail(p) ==
  /\ At(p, "orderConfirm", "mail")
  /\ Set(p, [Done("orderConfirm", proc[p].id, "ok") EXCEPT
               !.usr = proc[p].usr, !.amt = proc[p].amt, !.b0 = proc[p].b0, !.arg = proc[p].arg])
  /\ UNCHANGED <<env, db, ncalls, hist>>

\* ------------------------------------------------------------- POST /api/admin/orders/:id/reject
\* Order.findById(id): the first query of findById(...).populate('userId'); 404
OrderReject_Find(p, o, reason) ==
  /\ Free(p)
  /\ ncalls' = ncalls + 1
  /\ IF o > Len(orders)
       THEN Set(p, Done("orderReject", o, "404"))
       ELSE Set(p, [IdleProc EXCEPT !.op = "orderReject", !.pc = "populate", !.id = o,
                      !.doc = orders[o], !.usr = orders[o].userId, !.amt = orders[o].charge,
                      !.b0 = balance[orders[o].userId], !.arg = reason])
  /\ UNCHANGED <<env, db, hist>>

\* .populate('userId', ...): the second query, then the guards on the loaded order
OrderReject_Populate(p) ==
  /\ At(p, "orderReject", "populate")
  /\ IF ~AwaitingApproval(proc[p].doc)
       THEN Set(p, Done("orderReject", proc[p].id, "400"))
       ELSE proc' = [proc EXCEPT ![p].pc = "failTxn", ![p].pop = Exists(proc[p].usr),
                                 ![p].note = OrDefault(proc[p].arg, "Rejected by admin")]
  /\ UNCHANGED <<env, db, ncalls, hist>>

\* await Transaction.findOneAndUpdate({ reference }, { status: 'failed' })
OrderReject_FailTxn(p) ==
  /\ At(p, "orderReject", "failTxn")
  /\ LET t == TxnByReference(RefOf(p, proc[p].id)) IN
       txns' = IF t = 0 THEN txns ELSE [txns EXCEPT ![t].status = "failed"]
  /\ Goto(p, "saveOrder")
  /\ UNCHANGED <<env, acct, balance, orders, notifs, counter, ncalls, hist>>

\* a reject that refunds the charge although none was deducted
OrderReject_SaveOrder_Refunds(p) ==
  /\ At(p, "orderReject", "saveOrder")
  /\ "orders" \notin proc[p].gone
  /\ orders' = [orders EXCEPT ![proc[p].id].status = "Rejected",
                              ![proc[p].id].adminNotes = proc[p].note]
  /\ balance' = [balance EXCEPT ![proc[p].usr] = Credit(@, proc[p].amt)]
  /\ Goto(p, "notify")
  /\ UNCHANGED <<env, acct, txns, notifs, counter, ncalls, hist>>

\* order.status = 'Rejected'; order.adminNotes = ...; await order.save();
\* then order.userId._id is read for the notification
OrderReject_SaveOrder(p) ==
  /\ At(p, "orderReject", "saveOrder")
  /\ IF "orders" \in proc[p].gone
       THEN Set(p, Thrown(p)) /\ UNCHANGED orders
       ELSE /\ orders' = [orders EXCEPT ![proc[p].id].status = "Rejected",
                                        ![proc[p].id].adminNotes = proc[p].note]
            /\ IF proc[p].pop THEN Goto(p, "notify") ELSE Set(p, Thrown(p))
  /\ UNCHANGED <<env, acct, balance, txns, notifs, counter, ncalls, hist>>

\* await Notification.create({ userId: order.userId._id, title: 'Order Rejected', ... })
OrderReject_Notify(p) ==
  /\ At(p, "orderReject", "notify")
  /\ Notify(proc[p].usr, "Order Rejected", proc[p].id)
  /\ Goto(p, "mail")
  /\ UNCHANGED <<env, acct, balance, orders, txns, counter, ncalls, hist>>

\* try { await sendMail(...) } catch (mailErr) { log }; res.json(...)
OrderReject_Mail(p) ==
  /\ At(p, "orderReject", "mail")
  /\ Set(p, [Done("orderReject", proc[p].id, "ok") EXCEPT
               !.usr = proc[p].usr, !.amt = proc[p].amt, !.b0 = proc[p].b0, !.arg = proc[p].arg])
  /\ UNCHANGED <<env, db, ncalls, hist>>

\* ------------------------------------------------------------- POST /api/admin/deposits/:id/confirm
\* Transaction.findById(id): the first query of findById(...).populate('userId')
DepositConfirm_Find(p, t) ==
  /\ Free(p)
  /\ ncalls' = ncalls + 1
  /\ IF t > Len(txns)
       THEN Set(p, Done("depositConfirm", t, "404"))
       ELSE Set(p, [IdleProc EXCEPT !.op = "depositConfirm", !.pc = "populate", !.id = t,
                      !.tx = t, !.usr = txns[t].userId, !.amt = txns[t].amount,
                      !.tst = txns[t].status, !.note = txns[t].type,
                      !.b0 = balance[txns[t].userId]])
  /\ UNCHANGED <<env, db, hist>>

\* the type and status guards on the loaded transaction (part_004 113-115, 162-164)
DepositOpen(type, status) == type = "deposit" /\ status # "completed" /\ status # "failed"

\* .populate('userId'): the second query loads the user document, then the guards run
DepositConfirm_Populate(p) ==
  /\ At(p, "depositConfirm", "populate")
  /\ IF ~DepositOpen(proc[p].note, proc[p].tst)
       THEN Set(p, Done("depositConfirm", proc[p].id, "400"))
       ELSE proc' = [proc EXCEPT ![p].pc = "saveTxn", ![p].rd = balance[proc[p].usr],
                                 ![p].pop = Exists(proc[p].usr)]
  /\ UNCHANGED <<env, db, ncalls, hist>>

\* tx.status = 'completed'; await tx.save(); then user.balance is read
DepositConfirm_SaveTxn(p) ==
  /\ At(p, "depositConfirm", "saveTxn")
  /\ IF "txns" \in proc[p].gone
       THEN Set(p, Thrown(p)) /\ UNCHANGED txns
       ELSE /\ txns' = [txns EXCEPT ![proc[p].tx].status = "completed"]
            /\ IF proc[p].pop THEN Goto(p, "saveUser") ELSE Set(p, Thrown(p))
  /\ UNCHANGED <<env, acct, balance, orders, notifs, counter, ncalls, hist>>

\* const user = tx.userId; user.balance += tx.amount; await user.save()
DepositConfirm_SaveUser(p) ==
  /\ At(p, "depositConfirm", "saveUser")
  /\ IF ~Exists(proc[p].usr)
       THEN Set(p, Thrown(p)) /\ UNCHANGED <<balance, hist>>
       ELSE /\ balance' = [balance EXCEPT ![proc[p].usr] = Credit(proc[p].rd, proc[p].amt)]
            /\ Moved(HeldTxn(p), proc[p].usr, proc[p].amt)
            /\ Goto(p, "notify")
  /\ UNCHANGED <<env, acct, orders, txns, notifs, counter, ncalls>>

\* await Notification.create({ userId: user._id, title: 'Deposit Confirmed', ... })
DepositConfirm_Notify(p) ==
  /\ At(p, "depositConfirm", "notify")
  /\ Notify(proc[p].usr, "Deposit Confirmed", proc[p].id)
  /\ Goto(p, "mail")
  /\ UNCHANGED <<env, acct, balance, orders, txns, counter, ncalls, hist>>

\* try { await sendMail(...) } catch (mailErr) { log }; res.json(...)
DepositConfirm_Mail(p) ==
  /\ At(p, "depositConfirm", "mail")
  /\ Set(p, [Done("depositConfirm", proc[p].id, "ok") EXCEPT
               !.usr = proc[p].usr, !.amt = proc[p].amt, !.b0 = proc[p].b0])
  /\ UNCHANGED <<env, db, ncalls, hist>>

\* ------------------------------------------------------------- POST /api/admin/deposits/:id/reject
\* Transaction.findById(id): the first query of findById(...).populate('userId', ...)
DepositReject_Find(p, t, reason) ==
  /\ Free(p)
  /\ ncalls' = ncalls + 1
  /\ IF t > Len(txns)
       THEN Set(p, Done("depositReject", t, "404"))
       ELSE Set(p, [IdleProc EXCEPT !.op = "depositReject", !.pc = "populate", !.id = t,
                      !.tx = t, !.usr = txns[t].userId, !.amt = txns[t].amount,
                      !.tst = txns[t].status, !.note = txns[t].type,
                      !.b0 = balance[txns[t].userId], !.arg = reason])
  /\ UNCHANGED <<env, db, hist>>

\* .populate('userId', ...): the second query, then the guards on the loaded
\* transaction; the populated user is only used for its _id and email
DepositReject_Populate(p) ==
  /\ At(p, "depositReject", "populate")
  /\ IF ~DepositOpen(proc[p].note, proc[p].tst)
       THEN Set(p, Done("depositReject", proc[p].id, "400"))
       ELSE proc' = [proc EXCEPT ![p].pc = "saveTxn", ![p].pop = Exists(proc[p].usr),
                                 ![p].note = OrDefault(proc[p].arg, "No reason provided")]
  /\ UNCHANGED <<env, db, ncalls, hist>>

\* tx.status = 'failed'; tx.rejectReason = ...; await tx.save(); then tx.userId._id is read
DepositReject_SaveTxn(p) ==
  /\ At(p, "depositReject", "saveTxn")
  /\ IF "txns" \in proc[p].gone
       THEN Set(p, Thrown(p)) /\ UNCHANGED txns
       ELSE /\ txns' = [txns EXCEPT ![proc[p].tx].status = "failed",
                                    ![proc[p].tx].rejectReason = proc[p].note]
            /\ IF proc[p].pop THEN Goto(p, "notify") ELSE Set(p, Thrown(p))
  /\ UNCHANGED <<env, acct, balance, orders, notifs, counter, ncalls, hist>>

\* await Notification.create({ userId: tx.userId._id, title: 'Deposit Rejected', ... })
DepositReject_Notify(p) ==
  /\ At(p, "depositReject", "notify")
  /\ Notify(proc[p].usr, "Deposit Rejected", proc[p].id)
  /\ Goto(p, "mail")
  /\ UNCHANGED <<env, acct, balance, orders, txns, counter, ncalls, hist>>

\* try { await sendMail(...) } catch (mailErr) { log }; res.json(...)
DepositReject_Mail(p) ==
  /\ At(p, "depositReject", "mail")
  /\ Set(p, [Done("depositReject", proc[p].id, "ok") EXCEPT
               !.usr = proc[p].usr, !.amt = proc[p].amt, !.b0 = proc[p].b0])
  /\ UNCHANGED <<env, db, ncalls, hist>>

\* ------------------------------------------------------------- POST /api/admin/users/:id/balance
\* if (!amount || isNaN(amount)) 400; const user = await User.findById(id); 404
Adjust_Find(p, u, a) ==
  /\ Free(p)
  /\ ncalls' = ncalls + 1
  /\ IF a = 0
       THEN Set(p, Done("adjust", 0, "400"))
       ELSE IF ~Exists(u)
         THEN Set(p, Done("adjust", 0, "404"))
         ELSE Set(p, [IdleProc EXCEPT !.op = "adjust", !.pc = "saveUser", !.usr = u,
                        !.amt = a, !.rd = balance[u]])
  /\ UNCHANGED <<env, db, hist>>

\* user.balance += Number(amount); await user.save()
Adjust_SaveUser(p) ==
  /\ At(p, "adjust", "saveUser")
  /\ IF ~Exists(proc[p].usr)
       THEN Set(p, Thrown(p)) /\ UNCHANGED <<balance, ledger, adjusted>>
       ELSE /\ balance' = [balance EXCEPT ![proc[p].usr] = Credit(proc[p].rd, proc[p].amt)]
            /\ ledger' = [ledger EXCEPT ![proc[p].usr] = @ + proc[p].amt]
            /\ adjusted' = TRUE
            /\ Goto(p, "createTxn")
  /\ UNCHANGED <<env, acct, orders, txns, notifs, counter, ncalls, applied, burnt>>

\* await Transaction.create({type: 'adjustment', ...}); res.json(...)
Adjust_CreateTxn(p) ==
  /\ At(p, "adjust", "createTxn")
  /\ txns' = Append(txns, PreSave(AdjustTxn(proc[p].usr, proc[p].amt), txns))
  /\ applied' = Append(applied, 1)
  /\ Set(p, [Done("adjust", Len(txns) + 1, "ok") EXCEPT !.usr = proc[p].usr, !.amt = proc[p].amt,
               !.rd = proc[p].rd])
  /\ UNCHANGED <<env, acct, balance, orders, notifs, counter, ncalls, ledger, adjusted, burnt>>

\* ------------------------------------------------------------- POST /api/orders (manual order)
\* the cost without the quantity
TotalCost_UnitPrice(unitPrice, qty) == unitPrice

\* const totalCost = unitPrice * qty
TotalCost(unitPrice, qty) == unitPrice * qty

\* const user = await User.findById(req.user.id); if (!user) 404 "User not found".
\* svc is req.body.service: the userPrice of the service it names, NULL when it names none.
CreateOrder_Find(p, u, svc, qty) ==
  /\ Free(p)
  /\ ncalls' = ncalls + 1
  /\ IF ~Exists(u)
       THEN Set(p, Done("createOrder", 0, "404"))
       ELSE Set(p, [IdleProc EXCEPT !.op = "createOrder", !.pc = "service", !.usr = u,
                      !.b0 = balance[u], !.price = svc, !.qty = qty])
  /\ UNCHANGED <<env, db, hist>>

\* svc = await Service.findById(service) / Service.findOne({slug});
\* if (!svc) 400 "Invalid service ID"; totalCost = unitPrice * qty
CreateOrder_Service(p) ==
  /\ At(p, "createOrder", "service")
  /\ IF proc[p].price = NULL
       THEN Set(p, [Done("createOrder", 0, "400") EXCEPT !.usr = proc[p].usr, !.b0 = proc[p].b0,
                      !.qty = proc[p].qty])
       ELSE proc' = [proc EXCEPT ![p].pc = "counter",
                                 ![p].amt = TotalCost(proc[p].price, proc[p].qty)]
  /\ UNCHANGED <<env, db, ncalls, hist>>

\* an allocation that returns the counter without incrementing it
NextCounter_NoIncrement(c) == c

\* Counter.findOneAndUpdate({name:"orders"}, {$inc:{value:1}}, {new:true, upsert:true}).value
NextCounter(c) == c + 1

\* the allocation is one atomic database operation that returns the new value
CreateOrder_Counter(p) ==
  /\ At(p, "createOrder", "counter")
  /\ counter' = NextCounter(counter)
  /\ proc' = [proc EXCEPT ![p].pc = "createOrder", ![p].rd = NextCounter(counter)]
  /\ UNCHANGED <<env, acct, balance, orders, txns, notifs, ncalls, hist>>

\* await Order.create({... orderNumber: nextOrderNumber}); orderNumber has a unique index
CreateOrder_Create(p) ==
  /\ At(p, "createOrder", "createOrder")
  /\ IF \E i \in 1..Len(orders) : orders[i].orderNumber = proc[p].rd
       THEN /\ Set(p, [Done("createOrder", 0, ErrorHandler("")) EXCEPT !.note = "createOrder"])
            /\ burnt' = burnt \cup {proc[p].rd}
            /\ UNCHANGED orders
       ELSE /\ orders' = Append(orders, ManualOrder(proc[p].usr, proc[p].amt, proc[p].rd))
            /\ proc' = [proc EXCEPT ![p].pc = "createTxn", ![p].id = Len(orders) + 1]
            /\ UNCHANGED burnt
  /\ UNCHANGED <<env, acct, balance, txns, notifs, counter, ncalls, applied, ledger, adjusted>>

\* await Transaction.create({type:"order", status:"pending", reference, orderNumber}); res.json
CreateOrder_CreateTxn(p) ==
  /\ At(p, "createOrder", "createTxn")
  /\ txns' = Append(txns, PreSave(OrderTxn(proc[p].usr, proc[p].amt, RefOf(p, proc[p].id),
                                          proc[p].rd), txns))
  /\ applied' = Append(applied, 0)
  /\ Set(p, [Done("createOrder", proc[p].id, "ok") EXCEPT
               !.usr = proc[p].usr, !.amt = proc[p].amt, !.rd = proc[p].rd, !.b0 = proc[p].b0,
               !.price = proc[p].price, !.qty = proc[p].qty])
  /\ UNCHANGED <<env, acct, balance, orders, notifs, counter, ncalls, ledger, adjusted, burnt>>

\* ------------------------------------------------------------- POST /api/payments/deposit
\* const lastTx = await Transaction.findOne({type:'deposit'}).sort({orderNumber:-1})
\* r is req.body.reference (any text): 0, or the reference text of order r
CreateDeposit_Find(p, u, a, r) ==
  /\ Free(p)
  /\ ncalls' = ncalls + 1
  /\ Set(p, [IdleProc EXCEPT !.op = "createDeposit", !.pc = "createTxn", !.usr = u,
               !.amt = a, !.ref = r, !.rd = NextDepositNumber(txns), !.b0 = balance[u]])
  /\ UNCHANGED <<env, db, hist>>

\* const tx = await Transaction.create({... reference, orderNumber: nextOrderNumber})
CreateDeposit_Create(p) ==
  /\ At(p, "createDeposit", "createTxn")
  /\ txns' = Append(txns, PreSave(DepositTxn(proc[p].usr, proc[p].amt, proc[p].rd, "pending",
                                            RefOf(p, proc[p].ref)), txns))
  /\ applied' = Append(applied, 0)
  /\ proc' = [proc EXCEPT ![p].pc = "findUser", ![p].id = Len(txns) + 1]
  /\ UNCHANGED <<env, acct, balance, orders, notifs, counter, ncalls, ledger, adjusted, burnt>>

\* const user = await User.findById(req.user.id).select('email name')  (only its name is used)
CreateDeposit_FindUser(p) ==
  /\ At(p, "createDeposit", "findUser")
  /\ Goto(p, "alert")
  /\ UNCHANGED <<env, db, ncalls, hist>>

\* await sendTelegramAlert(...), which catches its own errors; res.json({ok: true, ...})
CreateDeposit_Alert(p) ==
  /\ At(p, "createDeposit", "alert")
  /\ Set(p, [Done("createDeposit", proc[p].id, "ok") EXCEPT
               !.usr = proc[p].usr, !.amt = proc[p].amt, !.rd = proc[p].rd, !.b0 = proc[p].b0,
               !.ref = proc[p].ref])
  /\ UNCHANGED <<env, db, ncalls, hist>>

\* ------------------------------------------------------------- POST /api/admin/users/:id/ban
\* const user = await User.findById(req.params.id); if (!user) 404
Ban_Find(p, u, b) ==
  /\ Free(p)
  /\ ncalls' = ncalls + 1
  /\ IF ~Exists(u)
       THEN Set(p, [Done("ban", 0, "404") EXCEPT !.usr = u])
       ELSE Set(p, [IdleProc EXCEPT !.op = "ban", !.pc = "saveUser", !.usr = u, !.flag = b,
                      !.was = users[u].banned, !.b0 = balance[u]])
  /\ UNCHANGED <<env, db, hist>>

\* user.banned = !!banned; await user.save()  (a write only when the loaded value differs)
Ban_SaveUser(p) ==
  /\ At(p, "ban", "saveUser")
  /\ IF ~Exists(proc[p].usr)
       THEN Set(p, Thrown(p)) /\ UNCHANGED users
       ELSE /\ users' = IF proc[p].flag = proc[p].was THEN users
                        ELSE [users EXCEPT ![proc[p].usr].banned = proc[p].flag]
            /\ Goto(p, "notify")
  /\ UNCHANGED <<env, resets, balance, orders, txns, notifs, counter, ncalls, hist>>

\* await Notification.create({ userId: user._id, title: `Account ${action}`, message })
Ban_Notify(p) ==
  /\ At(p, "ban", "notify")
  /\ Notify(proc[p].usr, IF proc[p].flag THEN "Account banned" ELSE "Account unbanned", 0)
  /\ Goto(p, "mail")
  /\ UNCHANGED <<env, acct, balance, orders, txns, counter, ncalls, hist>>

\* await sendMail(...) is not caught here: when it rejects the request ends in next(e)
Ban_Mail(p) ==
  /\ At(p, "ban", "mail")
  /\ \/ Set(p, [Done("ban", 0, "ok") EXCEPT !.usr = proc[p].usr, !.flag = proc[p].flag,
                  !.was = proc[p].was])
     \/ Set(p, Thrown(p))
  /\ UNCHANGED <<env, db, ncalls, hist>>

\* ------------------------------------------------------------- DELETE /api/admin/users/:id
\* the three collections with documents of a user
Collections == {"txns", "orders", "notifs"}

\* const user = await User.findById(req.params.id); if (!user) 404
DeleteUser_Find(p, u) ==
  /\ Free(p)
  /\ ncalls' = ncalls + 1
  /\ IF ~Exists(u)
       THEN Set(p, [Done("deleteUser", 0, "404") EXCEPT !.usr = u])
       ELSE Set(p, [IdleProc EXCEPT !.op = "deleteUser", !.pc = "deleteDocs", !.usr = u,
                      !.left = Collections, !.b0 = balance[u]])
  /\ UNCHANGED <<env, db, hist>>

\* the handlers that load or insert an order, or that were given the text of an order's reference
OrderOps == {"orderConfirm", "orderReject", "createOrder", "userRefresh", "adminRefresh",
             "refill", "sweep"}

\* the collections of which handler q holds a document: one it looked up by id
\* or inserted, the orders loaded by a cycle of the job, the reference text of an order
HoldsOf(q) ==
  IF ~Busy(q) THEN {}
  ELSE (IF \/ proc[q].op \in OrderOps /\ (proc[q].id # 0 \/ proc[q].queue # <<>>)
           \/ proc[q].ref > 0
          THEN {"orders"} ELSE {})
       \cup (IF proc[q].tx # 0 \/ (proc[q].op = "createDeposit" /\ proc[q].id # 0)
               THEN {"txns"} ELSE {})
       \cup (IF proc[q].op = "notificationRead" THEN {"notifs"} ELSE {})

\* the documents of a collection that deleteMany({ userId }) leaves
Others(coll, u) == SelectSeq(coll, LAMBDA d : d.userId # u)

\* the handlers after collection c lost the documents of the user: a document of c
\* that another handler holds is a deleted one from here on
Marked(c) ==
  [q \in Workers |-> IF c \in HoldsOf(q) THEN [proc[q] EXCEPT !.gone = @ \cup {c}] ELSE proc[q]]

\* the references of the transactions once the orders of u are deleted
Unreferenced(u) ==
  [i \in 1..Len(txns) |->
     IF txns[i].reference > 0 /\ orders[txns[i].reference].userId = u
       THEN [txns[i] EXCEPT !.reference = Dangling(@)] ELSE txns[i]]

\* X.deleteMany({ userId: u }) on collection c takes effect.  Every stored
\* document belongs to the one user of Users, so the collection is emptied.
DeleteMany(c, u) ==
  /\ txns' = IF c = "txns" THEN Others(txns, u)
             ELSE IF c = "orders" THEN Unreferenced(u) ELSE txns
  /\ orders' = IF c = "orders" THEN Others(orders, u) ELSE orders
  /\ notifs' = IF c = "notifs" THEN Others(notifs, u) ELSE notifs
  /\ applied' = IF c = "txns" THEN [i \in 1..Len(Others(txns, u)) |-> 0] ELSE applied

\* await Promise.all([Transaction.deleteMany, Order.deleteMany, Notification.deleteMany]):
\* the three operations are sent together and take effect one by one, in any
\* order; the await resolves with the last of them
DeleteUser_DeleteDocs(p, c) ==
  /\ At(p, "deleteUser", "deleteDocs")
  /\ c \in proc[p].left
  /\ DeleteMany(c, proc[p].usr)
  /\ proc' = [Marked(c) EXCEPT ![p].left = @ \ {c},
                               ![p].pc = IF proc[p].left = {c} THEN "deleteOne" ELSE @]
  /\ UNCHANGED <<env, acct, balance, counter, ncalls, ledger, adjusted, burnt>>

\* a deleteMany whose Promise.all has already rejected takes effect all the same
DeleteMany_Lands(d) ==
  /\ d \in inflight
  /\ inflight' = inflight \ {d}
  /\ DeleteMany(d.coll, d.userId)
  /\ proc' = Marked(d.coll)
  /\ UNCHANGED <<provider, nprov, acct, balance, counter, ncalls, ledger, adjusted, burnt>>

\* await User.deleteOne({ _id: user._id }); res.json(...)
DeleteUser_DeleteOne(p) ==
  /\ At(p, "deleteUser", "deleteOne")
  /\ users' = [x \in DOMAIN users \ {proc[p].usr} |-> users[x]]
  /\ Set(p, [Done("deleteUser", 0, "ok") EXCEPT !.usr = proc[p].usr, !.b0 = proc[p].b0])
  /\ UNCHANGED <<env, resets, balance, orders, txns, notifs, counter, ncalls, hist>>

\* ------------------------------------------------------------- POST /api/auth/request-reset
\* const user = await User.findOne({ email }); if (!user) 200 "If account exists, ..."
RequestReset_Find(p, u) ==
  /\ Free(p)
  /\ ncalls' = ncalls + 1
  /\ IF ~Exists(u)
       THEN Set(p, [Done("requestReset", 0, "ok") EXCEPT !.usr = u])
       ELSE Set(p, [IdleProc EXCEPT !.op = "requestReset", !.pc = "deleteTokens", !.usr = u,
                      !.tok = ncalls + 1, !.b0 = balance[u]])
  /\ UNCHANGED <<env, db, hist>>

\* await PasswordReset.deleteMany({ userId: user._id })
RequestReset_DeleteTokens(p) ==
  /\ At(p, "requestReset", "deleteTokens")
  /\ resets' = {t \in resets : t.userId # proc[p].usr}
  /\ Goto(p, "createToken")
  /\ UNCHANGED <<env, users, balance, orders, txns, notifs, counter, ncalls, hist>>

\* await PasswordReset.create({ userId: user.id, token, expiresAt })  (a fresh random token)
RequestReset_CreateToken(p) ==
  /\ At(p, "requestReset", "createToken")
  /\ resets' = resets \cup {[userId |-> proc[p].usr, token |-> proc[p].tok]}
  /\ Goto(p, "mail")
  /\ UNCHANGED <<env, users, balance, orders, txns, notifs, counter, ncalls, hist>>

\* await sendMail(...), not caught: when it rejects no notification is created
RequestReset_Mail(p) ==
  /\ At(p, "requestReset", "mail")
  /\ \/ Goto(p, "notify")
     \/ Set(p, [Thrown(p) EXCEPT !.tok = proc[p].tok])
  /\ UNCHANGED <<env, db, ncalls, hist>>

\* await Notification.create({ title: 'Password Reset Requested' }); res.json(...)
RequestReset_Notify(p) ==
  /\ At(p, "requestReset", "notify")
  /\ Notify(proc[p].usr, "Password Reset Requested", 0)
  /\ Set(p, [Done("requestReset", 0, "ok") EXCEPT !.usr = proc[p].usr, !.tok = proc[p].tok])
  /\ UNCHANGED <<env, acct, balance, orders, txns, counter, ncalls, hist>>

\* ------------------------------------------------------------- POST /api/auth/reset-password
\* const resetRecord = await PasswordReset.findOne({ token });
\* if (!resetRecord || resetRecord.expiresAt < new Date()) 400
ResetPassword_Find(p, t, expired) ==
  /\ Free(p)
  /\ ncalls' = ncalls + 1
  /\ LET hits == {r \in resets : r.token = t} IN
       IF hits = {} \/ expired
         THEN Set(p, [Done("resetPassword", 0, "400") EXCEPT !.tok = t])
         ELSE Set(p, [IdleProc EXCEPT !.op = "resetPassword", !.pc = "findUser", !.tok = t,
                        !.usr = (CHOOSE r \in hits : TRUE).userId])
  /\ UNCHANGED <<env, db, hist>>

\* const user = await User.findById(resetRecord.userId); if (!user) 404
ResetPassword_FindUser(p) ==
  /\ At(p, "resetPassword", "findUser")
  /\ IF ~Exists(proc[p].usr)
       THEN Set(p, [Done("resetPassword", 0, "404") EXCEPT !.usr = proc[p].usr, !.tok = proc[p].tok])
       ELSE Goto(p, "hash")
  /\ UNCHANGED <<env, db, ncalls, hist>>

\* const passwordHash = await bcrypt.hash(newPassword, 10)
ResetPassword_Hash(p) ==
  /\ At(p, "resetPassword", "hash")
  /\ Goto(p, "saveUser")
  /\ UNCHANGED <<env, db, ncalls, hist>>

\* user.passwordHash = passwordHash; await user.save()
ResetPassword_SaveUser(p) ==
  /\ At(p, "resetPassword", "saveUser")
  /\ IF ~Exists(proc[p].usr)
       THEN Set(p, [Thrown(p) EXCEPT !.tok = proc[p].tok]) /\ UNCHANGED users
       ELSE /\ users' = [users EXCEPT ![proc[p].usr].password = proc[p].tok]
            /\ Goto(p, "deleteToken")
  /\ UNCHANGED <<env, resets, balance, orders, txns, notifs, counter, ncalls, hist>>

\* await PasswordReset.deleteOne({ _id: resetRecord.id })
ResetPassword_DeleteToken(p) ==
  /\ At(p, "resetPassword", "deleteToken")
  /\ resets' = resets \ {[userId |-> proc[p].usr, token |-> proc[p].tok]}
  /\ Goto(p, "mail")
  /\ UNCHANGED <<env, users, balance, orders, txns, notifs, counter, ncalls, hist>>

\* await sendMail(...), not caught: when it rejects no notification is created
ResetPassword_Mail(p) ==
  /\ At(p, "resetPassword", "mail")
  /\ \/ Goto(p, "notify")
     \/ Set(p, [Thrown(p) EXCEPT !.tok = proc[p].tok])
  /\ UNCHANGED <<env, db, ncalls, hist>>

\* await Notification.create({ title: 'Password Reset Successful' }); res.json(...)
ResetPassword_Notify(p) ==
  /\ At(p, "resetPassword", "notify")
  /\ Notify(proc[p].usr, "Password Reset Successful", 0)
  /\ Set(p, [Done("resetPassword", 0, "ok") EXCEPT !.usr = proc[p].usr, !.tok = proc[p].tok])
  /\ UNCHANGED <<env, acct, balance, orders, txns, counter, ncalls, hist>>

\* ------------------------------------------------------------- POST /api/auth/signup, POST /api/admin/auth/signup
\* the e-mail address of a registration that belongs to no stored user
Applicants == {"u2"}
\* userSchema.role
Roles == {"user", "admin"}

\* User.create({ email, passwordHash, name, role }): the new document, with the
\* schema default balance 0 (POST /api/admin/users passes balance: 0 itself)
Registered(e, role) ==
  /\ users' = [x \in DOMAIN users \cup {e} |->
                 IF x = e THEN [NewUser EXCEPT !.role = role] ELSE users[x]]
  /\ balance' = [x \in DOMAIN balance \cup {e} |-> IF x = e THEN 0 ELSE balance[x]]
  /\ ledger' = [x \in DOMAIN ledger \cup {e} |-> IF x = e THEN 0 ELSE ledger[x]]

\* both signup routes (op "signup": role 'user', op "adminSignup": role 'admin'):
\* the body is validated, then
\* const existing = await User.findOne({ email }); if (existing) 400
Signup_Find(p, op, e, valid) ==
  /\ Free(p)
  /\ ncalls' = ncalls + 1
  /\ IF ~valid \/ Exists(e)
       THEN Set(p, [Done(op, 0, "400") EXCEPT !.usr = e])
       ELSE Set(p, [IdleProc EXCEPT !.op = op, !.pc = "hash", !.usr = e,
                      !.tst = IF op = "signup" THEN "user" ELSE "admin"])
  /\ UNCHANGED <<env, db, hist>>

\* const hashed = await bcrypt.hash(password, 10)
Signup_Hash(p) ==
  /\ proc[p].op \in {"signup", "adminSignup"} /\ proc[p].pc = "hash"
  /\ Goto(p, "create")
  /\ UNCHANGED <<env, db, ncalls, hist>>

\* const user = await User.create({ email, passwordHash, name, role }); the unique
\* index on email rejects the insert when the address has been registered meanwhile
Signup_Create(p) ==
  /\ proc[p].op \in {"signup", "adminSignup"} /\ proc[p].pc = "create"
  /\ IF Exists(proc[p].usr)
       THEN Set(p, Thrown(p)) /\ UNCHANGED <<users, balance, ledger>>
       ELSE Registered(proc[p].usr, proc[p].tst) /\ Goto(p, "token")
  /\ UNCHANGED <<env, resets, orders, txns, notifs, counter, ncalls, applied, adjusted, burnt>>

\* await saveRefreshToken(user.id, refreshToken); res.json(...)  (the RefreshToken
\* collection is written by the session routes only and is not part of this model)
Signup_Token(p) ==
  /\ proc[p].op \in {"signup", "adminSignup"} /\ proc[p].pc = "token"
  /\ Set(p, [Done(proc[p].op, 0, "ok") EXCEPT !.usr = proc[p].usr, !.tst = proc[p].tst])
  /\ UNCHANGED <<env, db, ncalls, hist>>

\* ------------------------------------------------------------- POST /api/admin/users
\* if (!name || !email || !password) 400; if (!['user','admin'].includes(role)) 400;
\* const existing = await User.findOne({ email }); if (existing) 400
CreateUser_Find(p, e, role, valid) ==
  /\ Free(p)
  /\ ncalls' = ncalls + 1
  /\ IF ~valid \/ role \notin Roles \/ Exists(e)
       THEN Set(p, [Done("createUser", 0, "400") EXCEPT !.usr = e])
       ELSE Set(p, [IdleProc EXCEPT !.op = "createUser", !.pc = "hash", !.usr = e, !.tst = role])
  /\ UNCHANGED <<env, db, hist>>

\* const hashed = await bcrypt.hash(password, 10)
CreateUser_Hash(p) ==
  /\ At(p, "createUser", "hash")
  /\ Goto(p, "create")
  /\ UNCHANGED <<env, db, ncalls, hist>>

\* const user = await User.create({ name, email, passwordHash, role, balance: 0, banned: false })
CreateUser_Create(p) ==
  /\ At(p, "createUser", "create")
  /\ IF Exists(proc[p].usr)
       THEN Set(p, Thrown(p)) /\ UNCHANGED <<users, balance, ledger>>
       ELSE Registered(proc[p].usr, proc[p].tst) /\ Goto(p, "mail")
  /\ UNCHANGED <<env, resets, orders, txns, notifs, counter, ncalls, applied, adjusted, burnt>>

\* await sendMail(...) is not caught here: when it rejects the request ends in
\* next(e) with the user created; else res.status(201).json(...)
CreateUser_Mail(p) ==
  /\ At(p, "createUser", "mail")
  /\ \/ Set(p, [Done("createUser", 0, "ok") EXCEPT !.usr = proc[p].usr, !.tst = proc[p].tst])
     \/ Set(p, Thrown(p))
  /\ UNCHANGED <<env, db, ncalls, hist>>

\* ------------------------------------------------------------- POST /api/user/change-password
\* req.body.newPassword: absent, shorter than 6 characters, or acceptable
PasswordChecks == {"missing", "short", "valid"}
\* the password a change of password sets
NewPassword == 0 - 1

\* if (!currentPassword || !newPassword) 400; if (newPassword.length < 6) 400;
\* const user = await User.findById(userId).select(...); if (!user) 404
\* (passwordHash is a required path, so a stored hash is always found)
ChangePassword_Find(p, u, check, match) ==
  /\ Free(p)
  /\ ncalls' = ncalls + 1
  /\ IF check # "valid"
       THEN Set(p, [Done("changePassword", 0, "400") EXCEPT !.usr = u])
       ELSE IF ~Exists(u)
         THEN Set(p, [Done("changePassword", 0, "404") EXCEPT !.usr = u])
         ELSE Set(p, [IdleProc EXCEPT !.op = "changePassword", !.pc = "compare", !.usr = u,
                        !.flag = match, !.b0 = balance[u]])
  /\ UNCHANGED <<env, db, hist>>

\* const isMatch = await bcrypt.compare(currentPassword, storedHash); if (!isMatch) 401
ChangePassword_Compare(p) ==
  /\ At(p, "changePassword", "compare")
  /\ IF proc[p].flag
       THEN Goto(p, "hash")
       ELSE Set(p, [Done("changePassword", 0, "401") EXCEPT !.usr = proc[p].usr])
  /\ UNCHANGED <<env, db, ncalls, hist>>

\* const newHash = await bcrypt.hash(newPassword, 10)
ChangePassword_Hash(p) ==
  /\ At(p, "changePassword", "hash")
  /\ Goto(p, "saveUser")
  /\ UNCHANGED <<env, db, ncalls, hist>>

\* user.passwordHash = newHash; await user.save()  (catch: res.status(500))
ChangePassword_SaveUser(p) ==
  /\ At(p, "changePassword", "saveUser")
  /\ IF ~Exists(proc[p].usr)
       THEN Set(p, Thrown(p)) /\ UNCHANGED users
       ELSE /\ users' = [users EXCEPT ![proc[p].usr].password = NewPassword]
            /\ Goto(p, "mail")
  /\ UNCHANGED <<env, resets, balance, orders, txns, notifs, counter, ncalls, hist>>

\* try { await sendMail(...) } catch (mailErr) { ... }; res.json(...)
ChangePassword_Mail(p) ==
  /\ At(p, "changePassword", "mail")
  /\ Set(p, [Done("changePassword", 0, "ok") EXCEPT !.usr = proc[p].usr, !.b0 = proc[p].b0])
  /\ UNCHANGED <<env, db, ncalls, hist>>

\* ------------------------------------------------------------- a step that throws
\* the handlers that send the mail inside their own try/catch
MailCaught == {"orderConfirm", "orderReject", "depositConfirm", "depositReject",
               "changePassword"}

\* the handlers of the reconciliation: the job and both refresh routes
SyncOps == {"sweep", "userRefresh", "adminRefresh"}

\* Any awaited call may reject (database or network error): the handler's
\* catch block passes the error on and nothing already written is undone.
\* When one deleteMany of Promise.all rejects, the await rejects at once; those
\* that have resolved have taken effect and the others stay in flight.
\* The job and the refresh routes have the rejection of each call among the
\* outcomes of their own steps (the job's per-order catch goes on to the next
\* order), so this step is not theirs.
Fail(p) ==
  /\ proc[p].pc \notin {"idle", "done"}
  /\ proc[p].op \notin SyncOps
  /\ ~At(p, "createDeposit", "alert")
  /\ ~(proc[p].pc = "mail" /\ proc[p].op \in MailCaught)
  /\ Set(p, [Done(proc[p].op, proc[p].id, Caught(proc[p].op, "")) EXCEPT
               !.usr = proc[p].usr, !.rd = proc[p].rd, !.note = proc[p].pc])
  /\ burnt' = IF At(p, "createOrder", "createOrder") THEN burnt \cup {proc[p].rd} ELSE burnt
  /\ \E r \in (IF proc[p].left = {} THEN {""} ELSE proc[p].left) :
       inflight' = inflight \cup {[coll |-> c, userId |-> proc[p].usr] : c \in proc[p].left \ {r}}
  /\ UNCHANGED <<provider, nprov, db, ncalls, applied, ledger, adjusted>>

\* the routes, by the name their handlers carry
RouteOps == [approval |-> {"orderConfirm", "orderReject"},
             wallet |-> {"depositConfirm", "depositReject", "adjust"},
             create |-> {"createOrder", "createDeposit"},
             account |-> {"ban", "deleteUser", "requestReset", "resetPassword",
                          "signup", "adminSignup", "createUser", "changePassword"},
             read |-> {"refill", "notifications", "notificationRead"},
             sync |-> {"userRefresh", "adminRefresh"}]

\* The first awaited call of a handler (findById, findOne, find) rejects: the
\* request is answered by the error handler and nothing was read or written.
\* (The job is no route: the rejection of its Order.find is an outcome of Sweep_Load.)
Fail_Find(p, op) ==
  /\ Free(p)
  /\ ncalls' = ncalls + 1
  /\ Set(p, [Done(op, 0, Caught(op, "")) EXCEPT !.note = "find"])
  /\ UNCHANGED <<env, db, hist>>

\* ------------------------------------------------------------- provider status answers
\* A field of the provider's JSON answer: absent, a JSON number, or a JSON
\* string holding a number.
JNone == [t |-> "none", v |-> 0]
JNum(n) == [t |-> "num", v |-> n]
JStr(n) == [t |-> "str", v |-> n]

\* JavaScript truthiness of a field: absent and the number 0 are falsy, every
\* non-empty string (also "0") is truthy.
Truthy(j) == j.t = "str" \/ (j.t = "num" /\ j.v # 0)

\* an answer of action=status; status "" = no status field (e.g. an {error: ...} body)
Answer(status, charge, start, remains, currency) ==
  [status |-> status, charge |-> charge, start_count |-> start, remains |-> remains,
   currency |-> currency]

ErrorBody == Answer("", JNone, JNone, JNone, "")

\* the answers the provider gives in this model
Answers ==
  { Answer("Pending", JNone, JNone, JNone, ""),
    Answer("Pending", JStr(2), JStr(5), JStr(3), "EUR"),
    Answer("In progress", JStr(1), JNone, JNum(0), "USD"),
    Answer("Processing", JNone, JNone, JNone, ""),
    Answer("Completed", JStr(2), JStr(0), JStr(0), "USD") }

\* the field updates shared by the three entry points:
\*   if (st.charge) order.charge = st.charge;  if (st.start_count) order.start_count = Number(..)
\*   if (st.remains) order.remains = Number(..);  if (st.currency) order.currency = st.currency
ApplyFields(doc, st) ==
  [doc EXCEPT !.charge = IF Truthy(st.charge) THEN st.charge.v ELSE @,
              !.start_count = IF Truthy(st.start_count) THEN st.start_count.v ELSE @,
              !.remains = IF Truthy(st.remains) THEN st.remains.v ELSE @,
              !.currency = IF st.currency # "" THEN st.currency ELSE @]

\* order.status = st?.status || order.status, then the field updates (both refresh routes)
ApplyRefresh(doc, st) ==
  ApplyFields([doc EXCEPT !.status = IF st.status # "" THEN st.status ELSE @], st)

\* st && st.status && st.status !== order.status  (the sweep's guard; the notification guard
\* of the user refresh)
StatusChanged(st, oldStatus) == st.status # "" /\ st.status # oldStatus

\* order.status = st.status, then the field updates (sweep, inside the guard)
ApplySweep(doc, st) == ApplyFields([doc EXCEPT !.status = st.status], st)

\* await order.save(): $set of the paths whose value differs from the loaded one
SaveModified(stored, loaded, changed) ==
  [f \in DOMAIN stored |-> IF changed[f] # loaded[f] THEN changed[f] ELSE stored[f]]

\* Order.find({ status: { $in: ['Pending', 'In progress'] } })
OpenStatuses == {"Pending", "In progress"}

\* secsers.status(id): the current answer, an error body, or a rejected call ("throw");
\* an id the provider does not know gets an error body
Fetched(po) == IF po \in DOMAIN provider THEN {provider[po], ErrorBody} ELSE {ErrorBody}

\* the provider changes its answer for one order
ProviderStep(po, a) ==
  /\ nprov < MaxProviderSteps
  /\ po \in DOMAIN provider
  /\ a \in Answers /\ a # provider[po]
  /\ provider' = [provider EXCEPT ![po] = a]
  /\ nprov' = nprov + 1
  /\ UNCHANGED <<inflight, db, proc, ncalls, hist>>

\* history: the handler of p received the body a for order o; bodies without
\* status are not recorded; `at` counts the provider's changes so far
Heard(p, o, a) ==
  IF a.status = "" THEN proc[p].got
  ELSE proc[p].got \cup {[id |-> o, status |-> a.status, at |-> nprov]}

StatusNotice(u, title, oid, old, new) ==
  notifs' = Append(notifs, [userId |-> u, title |-> title, ref |-> oid, old |-> old, new |-> new,
                            read |-> FALSE])

\* the guard with only its provider test
Refreshable_NoIdCheck(o) == o.provider = "secsers"

\* the guards of both refresh routes: provider === "secsers", then providerOrder present
Refreshable(o) == o.provider = "secsers" /\ o.providerOrder # 0

\* ------------------------------------------------------------- GET /api/orders/:id/status
\* Order.findOne({ _id, userId: req.user.id }) and the guards
UserRefresh_Find(p, o, u) ==
  /\ Free(p)
  /\ ncalls' = ncalls + 1
  /\ IF o > Len(orders) \/ (o <= Len(orders) /\ orders[o].userId # u)
       THEN Set(p, [Done("userRefresh", o, "404") EXCEPT !.usr = u])
       ELSE IF ~Refreshable(orders[o])
         THEN Set(p, [Done("userRefresh", o, "400") EXCEPT !.usr = u])
         ELSE Set(p, [IdleProc EXCEPT !.op = "userRefresh", !.pc = "status", !.id = o,
                        !.usr = u, !.doc = orders[o]])
  /\ UNCHANGED <<env, db, hist>>

\* const st = await secsers.status(local.providerOrder)
UserRefresh_Status(p) ==
  /\ At(p, "userRefresh", "status")
  /\ \/ \E a \in Fetched(proc[p].doc.providerOrder) :
          proc' = [proc EXCEPT ![p].pc = "save", ![p].st = a, ![p].got = Heard(p, proc[p].id, a)]
     \/ \E e \in CallErrors :
          Set(p, [Done("userRefresh", proc[p].id, ErrorHandler(e)) EXCEPT !.note = "status"])
  /\ UNCHANGED <<env, db, ncalls, hist>>

\* the assignments of lines 215-219 and await local.save(); a save the database
\* refuses (always, when the order has been deleted) ends the request in next(e)
UserRefresh_Save(p) ==
  /\ At(p, "userRefresh", "save")
  /\ \/ /\ "orders" \notin proc[p].gone
        /\ orders' = [orders EXCEPT ![proc[p].id] =
                        SaveModified(@, proc[p].doc, ApplyRefresh(proc[p].doc, proc[p].st))]
        /\ IF StatusChanged(proc[p].st, proc[p].doc.status)
             THEN Goto(p, "notify")
             ELSE Set(p, [Done("userRefresh", proc[p].id, "ok") EXCEPT
                            !.doc = proc[p].doc, !.st = proc[p].st, !.got = proc[p].got])
     \/ Set(p, Thrown(p)) /\ UNCHANGED orders
  /\ UNCHANGED <<env, acct, balance, txns, notifs, counter, ncalls, hist>>

\* the refresh has answered: res.json(local)
UserRefresh_Done(p, r) ==
  [Done("userRefresh", proc[p].id, r) EXCEPT !.doc = proc[p].doc, !.st = proc[p].st,
     !.got = proc[p].got]

\* a call after the save rejected: catch (e) { next(e) }
UserRefresh_Thrown(p) ==
  [UserRefresh_Done(p, ErrorHandler("")) EXCEPT !.note = proc[p].pc]

\* await Notification.create({ userId: req.user.id, title: "Order Status Updated", message });
\* when the insert rejects nothing is stored and the request ends in next(e)
UserRefresh_Notify(p) ==
  /\ At(p, "userRefresh", "notify")
  /\ \/ /\ StatusNotice(proc[p].usr, "Order Status Updated", proc[p].id,
                        proc[p].doc.status, proc[p].st.status)
        /\ Goto(p, "findUser")
     \/ /\ Set(p, UserRefresh_Thrown(p))
        /\ UNCHANGED notifs
  /\ UNCHANGED <<env, acct, balance, orders, txns, counter, ncalls, hist>>

\* const user = await User.findById(req.user.id).select("email"); if (user?.email) ...
UserRefresh_FindUser(p) ==
  /\ At(p, "userRefresh", "findUser")
  /\ \/ IF Exists(proc[p].usr) THEN Goto(p, "mail") ELSE Set(p, UserRefresh_Done(p, "ok"))
     \/ Set(p, UserRefresh_Thrown(p))
  /\ UNCHANGED <<env, db, ncalls, hist>>

\* await sendMail(...) is not caught here: when it rejects, the request ends in
\* the error handler; else res.json(local)
UserRefresh_Mail(p) ==
  /\ At(p, "userRefresh", "mail")
  /\ \/ Set(p, UserRefresh_Done(p, "ok"))
     \/ Set(p, UserRefresh_Thrown(p))
  /\ UNCHANGED <<env, db, ncalls, hist>>

\* ------------------------------------------------------------- POST /api/admin/orders/:id/refresh
\* Order.findById(id) and the guards
AdminRefresh_Find(p, o) ==
  /\ Free(p)
  /\ ncalls' = ncalls + 1
  /\ IF o > Len(orders)
       THEN Set(p, Done("adminRefresh", o, "404"))
       ELSE IF ~Refreshable(orders[o])
         THEN Set(p, Done("adminRefresh", o, "400"))
         ELSE Set(p, [IdleProc EXCEPT !.op = "adminRefresh", !.pc = "status", !.id = o,
                        !.usr = orders[o].userId, !.doc = orders[o]])
  /\ UNCHANGED <<env, db, hist>>

\* const st = await secsers.status(order.providerOrder)
AdminRefresh_Status(p) ==
  /\ At(p, "adminRefresh", "status")
  /\ \/ \E a \in Fetched(proc[p].doc.providerOrder) :
          proc' = [proc EXCEPT ![p].pc = "save", ![p].st = a, ![p].got = Heard(p, proc[p].id, a)]
     \/ \E e \in CallErrors :
          Set(p, [Done("adminRefresh", proc[p].id, ErrorHandler(e)) EXCEPT !.note = "status"])
  /\ UNCHANGED <<env, db, ncalls, hist>>

\* the assignments of lines 94-98, await order.save(), res.json(order); a save the
\* database refuses (always, when the order has been deleted) ends the request in next(e)
AdminRefresh_Save(p) ==
  /\ At(p, "adminRefresh", "save")
  /\ \/ /\ "orders" \notin proc[p].gone
        /\ orders' = [orders EXCEPT ![proc[p].id] =
                        SaveModified(@, proc[p].doc, ApplyRefresh(proc[p].doc, proc[p].st))]
        /\ Set(p, [Done("adminRefresh", proc[p].id, "ok") EXCEPT
                     !.doc = proc[p].doc, !.st = proc[p].st, !.got = proc[p].got])
     \/ Set(p, Thrown(p)) /\ UNCHANGED orders
  /\ UNCHANGED <<env, acct, balance, txns, notifs, counter, ncalls, hist>>

\* ------------------------------------------------------------- POST /api/orders/:id/refill
\* Order.findOne({ _id, userId: req.user.id }); if (!local?.providerOrder) 404
Refill_Find(p, o, u) ==
  /\ Free(p)
  /\ ncalls' = ncalls + 1
  /\ IF o > Len(orders) \/ (o <= Len(orders) /\ orders[o].userId # u)
          \/ (o <= Len(orders) /\ orders[o].providerOrder = 0)
       THEN Set(p, [Done("refill", o, "404") EXCEPT !.usr = u])
       ELSE Set(p, [IdleProc EXCEPT !.op = "refill", !.pc = "refill", !.id = o, !.usr = u,
                      !.doc = orders[o]])
  /\ UNCHANGED <<env, db, hist>>

\* const rf = await secsers.refill(local.providerOrder); res.json(rf), or next(e)
Refill_Call(p) ==
  /\ At(p, "refill", "refill")
  /\ \/ Set(p, [Done("refill", proc[p].id, "ok") EXCEPT !.usr = proc[p].usr])
     \/ \E e \in CallErrors :
          Set(p, [Done("refill", proc[p].id, ErrorHandler(e)) EXCEPT
                    !.usr = proc[p].usr, !.note = "refill"])
  /\ UNCHANGED <<env, db, ncalls, hist>>

\* ------------------------------------------------------------- GET /api/notifications
\* Notification.find({ userId: req.user.id }).sort({ createdAt: -1 }).lean(); res.json(notes)
Notifications_List(p, u) ==
  /\ Free(p)
  /\ ncalls' = ncalls + 1
  /\ Set(p, [Done("notifications", 0, "ok") EXCEPT
               !.usr = u, !.amt = Cardinality({i \in 1..Len(notifs) : notifs[i].userId = u})])
  /\ UNCHANGED <<env, db, hist>>

\* ------------------------------------------------------------- POST /api/notifications/:id/read
\* const note = await Notification.findOne({ _id, userId: req.user.id }); if (!note) 404
Notifications_Find(p, n, u) ==
  /\ Free(p)
  /\ ncalls' = ncalls + 1
  /\ IF n > Len(notifs) \/ (n <= Len(notifs) /\ notifs[n].userId # u)
       THEN Set(p, [Done("notificationRead", n, "404") EXCEPT !.usr = u])
       ELSE Set(p, [IdleProc EXCEPT !.op = "notificationRead", !.pc = "save", !.id = n,
                      !.usr = u, !.was = notifs[n].read])
  /\ UNCHANGED <<env, db, hist>>

\* note.read = true; await note.save(); res.json(...)  (a write only when it was unread)
Notifications_Save(p) ==
  /\ At(p, "notificationRead", "save")
  /\ IF "notifs" \in proc[p].gone
       THEN Set(p, Thrown(p)) /\ UNCHANGED notifs
       ELSE /\ notifs' = IF proc[p].was THEN notifs
                         ELSE [notifs EXCEPT ![proc[p].id].read = TRUE]
            /\ Set(p, [Done("notificationRead", proc[p].id, "ok") EXCEPT !.usr = proc[p].usr])
  /\ UNCHANGED <<env, acct, balance, orders, txns, counter, ncalls, hist>>

\* ------------------------------------------------------------- the cron job of startOrderSync
\* every stored order, without the status filter and the providerOrder skip
OpenOrders_Unfiltered == [i \in 1..Len(orders) |-> [id |-> i, doc |-> orders[i]]]

\* the documents loaded by Order.find(...) that pass `if (!order.providerOrder) continue`
OpenOrders ==
  SelectSeq([i \in 1..Len(orders) |-> [id |-> i, doc |-> orders[i]]],
            LAMBDA e : e.doc.status \in OpenStatuses /\ e.doc.providerOrder # 0)

\* the loop goes on to the next loaded order, or the cycle ends
SweepOn(p, sk, g, us) ==
  IF Len(proc[p].queue) > 1
    THEN proc' = [proc EXCEPT ![p].pc = "status", ![p].queue = Tail(@), ![p].st = NoDoc,
                              ![p].skipped = sk, ![p].got = g, ![p].unsaved = us]
    ELSE Set(p, [Done("sweep", 0, "ok") EXCEPT !.skipped = sk, !.got = g, !.unsaved = us])

SweepNext(p, sk, g) == SweepOn(p, sk, g, proc[p].unsaved)

\* const orders = await Order.find({ status: { $in: [...] } }); when the query
\* rejects, the outer catch logs it and the cycle ends having loaded no order
Sweep_Load(p) ==
  /\ \/ IF OpenOrders = <<>>
          THEN Set(p, Done("sweep", 0, "ok"))
          ELSE Set(p, [IdleProc EXCEPT !.op = "sweep", !.pc = "status", !.queue = OpenOrders])
     \/ Set(p, [Done("sweep", 0, "ok") EXCEPT !.note = "find"])
  /\ UNCHANGED <<env, db, hist>>

\* a cycle of the job, counted among the requests of the behaviour
Sweep_Find(p) ==
  /\ Free(p)
  /\ ncalls' = ncalls + 1
  /\ Sweep_Load(p)

\* cron.schedule('*/5 * * * *', ...): the timer starts a cycle again and again;
\* the cycle begins by awaiting Order.find
Cron_Tick(p) ==
  /\ ~Busy(p)
  /\ Set(p, [IdleProc EXCEPT !.op = "sweep", !.pc = "find"])
  /\ UNCHANGED <<env, db, ncalls, hist>>

\* the query of a cycle started by the timer resolves
Cron_Find(p) ==
  /\ At(p, "sweep", "find")
  /\ UNCHANGED ncalls
  /\ Sweep_Load(p)

\* secsers.status(order.providerOrder) resolved with the body a; the guard of line 20
Sweep_Answered(p, a) ==
  /\ At(p, "sweep", "status")
  /\ IF StatusChanged(a, Head(proc[p].queue).doc.status)
       THEN proc' = [proc EXCEPT ![p].pc = "save", ![p].st = a,
                                 ![p].got = Heard(p, Head(proc[p].queue).id, a)]
       ELSE SweepNext(p, IF a.status = "" THEN proc[p].skipped \cup {Head(proc[p].queue).id}
                         ELSE proc[p].skipped,
                      Heard(p, Head(proc[p].queue).id, a))
  /\ UNCHANGED <<env, db, ncalls, hist>>

\* the rejection reaching the outer catch: the cycle ends at the failed order
Sweep_Rejected_Aborts(p) ==
  /\ At(p, "sweep", "status")
  /\ Set(p, [Done("sweep", 0, "ok") EXCEPT
               !.skipped = proc[p].skipped \cup {Head(proc[p].queue).id}, !.got = proc[p].got,
               !.unsaved = proc[p].unsaved])
  /\ UNCHANGED <<env, db, ncalls, hist>>

\* secsers.status(...) rejected: the per-order catch logs it, next order
Sweep_Rejected(p) ==
  /\ At(p, "sweep", "status")
  /\ SweepNext(p, proc[p].skipped \cup {Head(proc[p].queue).id}, proc[p].got)
  /\ UNCHANGED <<env, db, ncalls, hist>>

\* const st = await secsers.status(order.providerOrder), inside the per-order try
Sweep_Status(p) ==
  /\ At(p, "sweep", "status")
  /\ \/ \E a \in Fetched(Head(proc[p].queue).doc.providerOrder) : Sweep_Answered(p, a)
     \/ Sweep_Rejected(p)

\* The provider accepts the connection and never answers: axios.post is called
\* without a timeout, so the promise awaited by the cycle stays pending and the
\* cycle has no further step.
Sweep_Silent(p) ==
  /\ At(p, "sweep", "status")
  /\ Goto(p, "waiting")
  /\ UNCHANGED <<env, db, ncalls, hist>>

\* the assignments of lines 21-26 and await order.save(); a save the database
\* refuses (always, when the order has been deleted) rejects into the per-order
\* catch: the order stays as stored and the loop goes on
Sweep_Save(p) ==
  /\ At(p, "sweep", "save")
  /\ LET e == Head(proc[p].queue) IN
       \/ /\ "orders" \notin proc[p].gone
          /\ orders' = [orders EXCEPT ![e.id] =
                          SaveModified(@, e.doc, ApplySweep(e.doc, proc[p].st))]
          /\ Goto(p, "findUser")
       \/ /\ SweepOn(p, proc[p].skipped, proc[p].got, proc[p].unsaved \cup {e.id})
          /\ UNCHANGED orders
  /\ UNCHANGED <<env, acct, balance, txns, notifs, counter, ncalls, hist>>

\* const user = await User.findById(order.userId); if (user) { ... }; a rejection
\* is caught by the per-order catch
Sweep_FindUser(p) ==
  /\ At(p, "sweep", "findUser")
  /\ \/ IF Exists(Head(proc[p].queue).doc.userId)
          THEN Goto(p, "notify")
          ELSE SweepNext(p, proc[p].skipped, proc[p].got)
     \/ SweepNext(p, proc[p].skipped, proc[p].got)
  /\ UNCHANGED <<env, db, ncalls, hist>>

\* await Notification.create({ userId: user._id, title, message }); when the
\* insert rejects nothing is stored and the per-order catch goes on to the next order
Sweep_Notify(p) ==
  /\ At(p, "sweep", "notify")
  /\ \/ /\ LET e == Head(proc[p].queue) IN
             StatusNotice(e.doc.userId, "Order status updated", e.id,
                          e.doc.status, proc[p].st.status)
        /\ Goto(p, "mail")
     \/ /\ SweepNext(p, proc[p].skipped, proc[p].got)
        /\ UNCHANGED notifs
  /\ UNCHANGED <<env, acct, balance, orders, txns, counter, ncalls, hist>>

\* await sendMail(...): sent, or rejected into the per-order catch; next order
Sweep_Mail(p) ==
  /\ At(p, "sweep", "mail")
  /\ SweepNext(p, proc[p].skipped, proc[p].got)
  /\ UNCHANGED <<env, db, ncalls, hist>>

\* ------------------------------------------------------------- database with provider orders
\* n orders placed with the provider and still Pending, one order that never
\* received a provider id, and one manual order with its pending transaction.
SyncOrders(u, n) ==
  [i \in 1..n |-> ProviderOrder(u, i, "Pending", i)]
  \o <<ProviderOrder(u, 0, "Pending", n + 1), ManualOrder(u, Max(Prices), n + 2)>>

InitSync ==
  \E u \in Users :
    /\ balance = [x \in Users |-> 0]
    /\ orders = SyncOrders(u, SeedProviderOrders)
    /\ txns = <<OrderTxn(u, Max(Prices), SeedProviderOrders + 2, SeedProviderOrders + 2)>>
    /\ applied = <<0>>
    /\ counter = SeedProviderOrders + 2
    /\ provider = [i \in 1..SeedProviderOrders |-> Answer("Pending", JNone, JNone, JNone, "")]
    /\ nprov = 0
    /\ notifs = <<>>
    /\ proc = [p \in Workers |-> IdleProc]
    /\ ncalls = 0
    /\ users = [x \in Users |-> NewUser]
    /\ resets = {}
    /\ inflight = {}
    /\ ledger = balance
    /\ adjusted = FALSE
    /\ burnt = {}

\* The seeded database of Init with one provider order beside the manual ones.
InitMixed ==
  \E u \in Users :
    /\ balance = [x \in Users |-> IF x = u THEN SeedBalance ELSE 0]
    /\ orders = SeedOrders(u, MaxSeed) \o <<ProviderOrder(u, 1, "Pending", MaxSeed + 1)>>
    /\ txns = SeedTxns(u, SeedBalance, MaxSeed)
    /\ applied = [i \in 1..(MaxSeed + 2) |-> IF i = 1 THEN 1 ELSE 0]
    /\ counter = MaxSeed + 1
    /\ provider = <<Answer("Pending", JNone, JNone, JNone, "")>>
    /\ nprov = 0
    /\ notifs = <<>>
    /\ proc = [p \in Workers |-> IdleProc]
    /\ ncalls = 0
    /\ users = [x \in Users |-> NewUser]
    /\ resets = {}
    /\ inflight = {}
    /\ ledger = balance
    /\ adjusted = FALSE
    /\ burnt = {}

\* Number of manual orders pending in the database on which every route runs.
\* (bound)
AllSeed == 1

\* The database of InitMixed, with AllSeed manual orders, when the provider has
\* completed the provider order and the stored order has not been refreshed yet.
InitAll ==
  \E u \in Users :
    /\ balance = [x \in Users |-> IF x = u THEN SeedBalance ELSE 0]
    /\ orders = SeedOrders(u, AllSeed) \o <<ProviderOrder(u, 1, "Pending", AllSeed + 1)>>
    /\ txns = SeedTxns(u, SeedBalance, AllSeed)
    /\ applied = [i \in 1..(AllSeed + 2) |-> IF i = 1 THEN 1 ELSE 0]
    /\ counter = AllSeed + 1
    /\ provider = <<Answer("Completed", JStr(2), JStr(0), JStr(0), "USD")>>
    /\ nprov = 0
    /\ notifs = <<>>
    /\ proc = [p \in Workers |-> IdleProc]
    /\ ncalls = 0
    /\ users = [x \in Users |-> NewUser]
    /\ resets = {}
    /\ inflight = {}
    /\ ledger = balance
    /\ adjusted = FALSE
    /\ burnt = {}

\* Number of provider orders open when the cycles of the job are examined alone.
\* (bound)
SweepOrders == 3

\* n provider orders are stored as Pending; the provider has meanwhile moved
\* each of them to any of its answers.
InitOpen(n) ==
  \E u \in Users :
    /\ balance = [x \in Users |-> 0]
    /\ orders = SyncOrders(u, n)
    /\ txns = <<OrderTxn(u, Max(Prices), n + 2, n + 2)>>
    /\ applied = <<0>>
    /\ counter = n + 2
    /\ provider \in [1..n -> Answers]
    /\ nprov = 0
    /\ notifs = <<>>
    /\ proc = [p \in Workers |-> IdleProc]
    /\ ncalls = 0
    /\ users = [x \in Users |-> NewUser]
    /\ resets = {}
    /\ inflight = {}
    /\ ledger = balance
    /\ adjusted = FALSE
    /\ burnt = {}

\* ------------------------------------------------------------- specifications
OrderIds == 1..(Len(orders) + 1)
\* req.body.reference of a deposit request: a text naming no order, or an order's reference text
References == {0} \cup (1..Len(orders))
TxnIds == 1..(Len(txns) + 1)

\* the manual-order approval flow
ApprovalStep(p) ==
  \/ \E o \in OrderIds, n \in Notes : OrderConfirm_Find(p, o, n)
  \/ OrderConfirm_Populate(p)
  \/ OrderConfirm_SaveOrder(p)
  \/ OrderConfirm_FindTxn(p)
  \/ OrderConfirm_FindUser(p)
  \/ OrderConfirm_SaveUser(p)
  \/ OrderConfirm_SaveTxn(p)
  \/ OrderConfirm_Notify(p)
  \/ OrderConfirm_Mail(p)
  \/ \E o \in OrderIds, n \in Notes : OrderReject_Find(p, o, n)
  \/ OrderReject_Populate(p)
  \/ OrderReject_FailTxn(p)
  \/ OrderReject_SaveOrder(p)
  \/ OrderReject_Notify(p)
  \/ OrderReject_Mail(p)

\* the deposit approval flow and the admin adjustment
WalletStep(p) ==
  \/ \E t \in TxnIds : DepositConfirm_Find(p, t)
  \/ DepositConfirm_Populate(p)
  \/ DepositConfirm_SaveTxn(p)
  \/ DepositConfirm_SaveUser(p)
  \/ DepositConfirm_Notify(p)
  \/ DepositConfirm_Mail(p)
  \/ \E t \in TxnIds, n \in Notes : DepositReject_Find(p, t, n)
  \/ DepositReject_Populate(p)
  \/ DepositReject_SaveTxn(p)
  \/ DepositReject_Notify(p)
  \/ DepositReject_Mail(p)
  \/ \E u \in Users, a \in AdjustAmounts : Adjust_Find(p, u, a)
  \/ Adjust_SaveUser(p)
  \/ Adjust_CreateTxn(p)

\* creation of manual orders and of deposit requests
CreateStep(p) ==
  \/ \E u \in Users, c \in Services, q \in Quantities : CreateOrder_Find(p, u, c, q)
  \/ CreateOrder_Service(p)
  \/ CreateOrder_Counter(p)
  \/ CreateOrder_Create(p)
  \/ CreateOrder_CreateTxn(p)
  \/ \E u \in Users, a \in DepositAmounts, r \in References : CreateDeposit_Find(p, u, a, r)
  \/ CreateDeposit_Create(p)
  \/ CreateDeposit_FindUser(p)
  \/ CreateDeposit_Alert(p)

\* one worker: requests are handled one after the other
NextSeq == ApprovalStep(1) \/ WalletStep(1) \/ CreateStep(1)
SpecSeq == Init /\ [][NextSeq]_vars

\* one worker, and any awaited call may throw
NextSeqFail ==
  \/ ApprovalStep(1) \/ WalletStep(1) \/ CreateStep(1) \/ Fail(1)
  \/ \E op \in RouteOps.approval \cup RouteOps.wallet \cup RouteOps.create : Fail_Find(1, op)
SpecSeqFail == Init /\ [][NextSeqFail]_vars

\* two workers: the handlers of two requests interleave at every await
Next == \E p \in Workers : ApprovalStep(p) \/ WalletStep(p) \/ CreateStep(p)
Spec == Init /\ [][Next]_vars

\* two workers creating orders and deposits, and any awaited call may throw
NextCreate ==
  \E p \in Workers : CreateStep(p) \/ Fail(p) \/ \E op \in RouteOps.create : Fail_Find(p, op)
SpecCreate == Init /\ [][NextCreate]_vars

\* the routes that create Transactions: order and deposit creation, admin adjustment
NumberStep(p) ==
  \/ CreateStep(p)
  \/ \E u \in Users, a \in AdjustAmounts : Adjust_Find(p, u, a)
  \/ Adjust_SaveUser(p)
  \/ Adjust_CreateTxn(p)

\* two workers creating orders, deposits and adjustments
NextNumbers == \E p \in Workers : NumberStep(p)
SpecNumbers == Init /\ [][NextNumbers]_vars

\* two workers handling confirm and reject requests for manual and provider orders
NextApproval == \E p \in Workers : ApprovalStep(p)
SpecApproval == InitMixed /\ [][NextApproval]_vars

\* provider status reconciliation: the sweep, both refresh routes, the provider
SyncStep(p) ==
  \/ \E op \in RouteOps.sync : Fail_Find(p, op)
  \/ \E o \in OrderIds, u \in Callers : UserRefresh_Find(p, o, u)
  \/ UserRefresh_Status(p)
  \/ UserRefresh_Save(p)
  \/ UserRefresh_Notify(p)
  \/ UserRefresh_FindUser(p)
  \/ UserRefresh_Mail(p)
  \/ \E o \in OrderIds : AdminRefresh_Find(p, o)
  \/ AdminRefresh_Status(p)
  \/ AdminRefresh_Save(p)
  \/ Sweep_Find(p)
  \/ Sweep_Status(p)
  \/ Sweep_Save(p)
  \/ Sweep_FindUser(p)
  \/ Sweep_Notify(p)
  \/ Sweep_Mail(p)

\* two workers (cron runs and refresh requests) and the provider
NextSync ==
  \/ \E p \in Workers : SyncStep(p)
  \/ \E po \in DOMAIN provider, a \in Answers : ProviderStep(po, a)
SpecSync == InitSync /\ [][NextSync]_vars

\* the routes that forward to the provider or only read
ReadStep(p) ==
  \/ \E o \in OrderIds, u \in Callers : Refill_Find(p, o, u)
  \/ Refill_Call(p)
  \/ \E u \in Callers : Notifications_List(p, u)
  \/ \E n \in 1..(Len(notifs) + 1), u \in Callers : Notifications_Find(p, n, u)
  \/ Notifications_Save(p)

\* req.body.token of a reset: a stored token, or a text that is none
Tokens == {r.token : r \in resets} \cup {0}

\* e-mail addresses sent to the registration routes: those of the stored users
\* and the new one
Emails == DOMAIN users \cup Applicants

\* the account routes: registration, creation of a user by the admin, change of
\* password, ban, password reset, deletion of a user
AccountStep(p) ==
  \/ \E op \in {"signup", "adminSignup"}, e \in Emails, v \in BOOLEAN : Signup_Find(p, op, e, v)
  \/ Signup_Hash(p)
  \/ Signup_Create(p)
  \/ Signup_Token(p)
  \/ \E e \in Emails, r \in Roles \cup {""}, v \in BOOLEAN : CreateUser_Find(p, e, r, v)
  \/ CreateUser_Hash(p)
  \/ CreateUser_Create(p)
  \/ CreateUser_Mail(p)
  \/ \E u \in Callers \cup DOMAIN users, c \in PasswordChecks, m \in BOOLEAN :
       ChangePassword_Find(p, u, c, m)
  \/ ChangePassword_Compare(p)
  \/ ChangePassword_Hash(p)
  \/ ChangePassword_SaveUser(p)
  \/ ChangePassword_Mail(p)
  \/ \E u \in Users, b \in BOOLEAN : Ban_Find(p, u, b)
  \/ Ban_SaveUser(p)
  \/ Ban_Notify(p)
  \/ Ban_Mail(p)
  \/ \E u \in Callers : RequestReset_Find(p, u)
  \/ RequestReset_DeleteTokens(p)
  \/ RequestReset_CreateToken(p)
  \/ RequestReset_Mail(p)
  \/ RequestReset_Notify(p)
  \/ \E t \in Tokens, x \in BOOLEAN : ResetPassword_Find(p, t, x)
  \/ ResetPassword_FindUser(p)
  \/ ResetPassword_Hash(p)
  \/ ResetPassword_SaveUser(p)
  \/ ResetPassword_DeleteToken(p)
  \/ ResetPassword_Mail(p)
  \/ ResetPassword_Notify(p)
  \/ \E u \in Users : DeleteUser_Find(p, u)
  \/ \E c \in Collections : DeleteUser_DeleteDocs(p, c)
  \/ DeleteUser_DeleteOne(p)

\* the routes whose handlers end in Fail when an awaited call rejects
FailOps == UNION {RouteOps[g] : g \in DOMAIN RouteOps \ {"sync"}}

\* every route that writes users, orders, transactions or notifications, and the
\* job, one request at a time, over the database with manual and provider
\* orders; the reconciliation with its rejected queries and saves
NextAll ==
  \/ ApprovalStep(1) \/ WalletStep(1) \/ CreateStep(1) \/ SyncStep(1) \/ ReadStep(1)
  \/ AccountStep(1)
SpecAll == InitAll /\ [][NextAll]_vars

\* two workers on every route that writes users, orders, transactions or
\* notifications without the provider, and any awaited call may throw
NextAccount ==
  \/ \E p \in Workers :
       \/ ApprovalStep(p) \/ WalletStep(p) \/ CreateStep(p) \/ AccountStep(p) \/ ReadStep(p)
       \/ Fail(p)
       \/ \E op \in FailOps : Fail_Find(p, op)
  \/ \E d \in inflight : DeleteMany_Lands(d)
SpecAccount == InitAll /\ [][NextAccount]_vars

\* the reconciliation when the provider has already moved the stored orders on
SpecRace == InitOpen(SeedProviderOrders) /\ [][NextSync]_vars

\* n provider orders are stored as Pending and the provider has completed them
InitCompleted(n) == InitOpen(n) /\ \A po \in 1..n : provider[po].status = "Completed"

\* the reconciliation while the provider's answers stay as they are
NextGuard == \E p \in Workers : SyncStep(p)
SpecGuard == InitCompleted(SeedProviderOrders) /\ [][NextGuard]_vars

\* A database with orders of every kind: n provider orders stored as Pending
\* that the provider has completed, one order that never received a provider
\* id, and three manual orders of the funded user - one awaiting approval, one
\* confirmed (its charge deducted), one rejected.
FrameOrders(u, n) ==
  [i \in 1..n |-> ProviderOrder(u, i, "Pending", i)]
  \o <<ProviderOrder(u, 0, "Pending", n + 1),
       ManualOrder(u, Max(Prices), n + 2),
       [ManualOrder(u, Max(Prices), n + 3) EXCEPT !.status = "Completed",
                                                   !.adminNotes = "Confirmed by admin"],
       [ManualOrder(u, Max(Prices), n + 4) EXCEPT !.status = "Rejected",
                                                   !.adminNotes = "Rejected by admin"]>>

FrameTxns(u, n) ==
  <<DepositTxn(u, SeedBalance + Max(Prices), 1, "completed", 0),
    OrderTxn(u, Max(Prices), n + 2, n + 2),
    [OrderTxn(u, Max(Prices), n + 3, n + 3) EXCEPT !.status = "completed"],
    [OrderTxn(u, Max(Prices), n + 4, n + 4) EXCEPT !.status = "failed"]>>

InitFrame ==
  \E u \in Users :
    /\ balance = [x \in Users |-> IF x = u THEN SeedBalance ELSE 0]
    /\ orders = FrameOrders(u, SeedProviderOrders)
    /\ txns = FrameTxns(u, SeedProviderOrders)
    /\ applied = <<1, 0, 1, 0>>
    /\ counter = SeedProviderOrders + 4
    /\ provider = [i \in 1..SeedProviderOrders |-> Answer("Completed", JStr(2), JStr(0), JStr(0), "USD")]
    /\ nprov = 0
    /\ notifs = <<>>
    /\ proc = [p \in Workers |-> IdleProc]
    /\ ncalls = 0
    /\ users = [x \in Users |-> NewUser]
    /\ resets = {}
    /\ inflight = {}
    /\ ledger = balance
    /\ adjusted = FALSE
    /\ burnt = {}

\* two workers: the reconciliation with the provider's answers as they are,
\* beside confirm and reject requests for the manual orders, which are taken
\* one at a time by worker 1 (cycles and refreshes run on either worker)
NextFrame == ApprovalStep(1) \/ \E p \in Workers : SyncStep(p)
SpecFrame == InitFrame /\ [][NextFrame]_vars

\* cycles of the job, one after the other, over several open orders
NextSweep ==
  \/ Sweep_Find(1)
  \/ Sweep_Status(1)
  \/ Sweep_Save(1)
  \/ Sweep_FindUser(1)
  \/ Sweep_Notify(1)
  \/ Sweep_Mail(1)

SpecSweep == InitOpen(SweepOrders) /\ [][NextSweep]_vars

\* the provider orders open when the job is followed for ever
LiveOrders == SeedProviderOrders + 1

\* the job for ever: the timer, the cycles it starts, and the provider
NextLive ==
  \/ Cron_Tick(1)
  \/ Cron_Find(1)
  \/ Sweep_Status(1)
  \/ Sweep_Save(1)
  \/ Sweep_FindUser(1)
  \/ Sweep_Notify(1)
  \/ Sweep_Mail(1)
  \/ \E po \in DOMAIN provider, a \in Answers : ProviderStep(po, a)

\* the status call for provider order po resolves with the provider's answer
Sweep_Succeeds(po) ==
  /\ At(1, "sweep", "status")
  /\ Head(proc[1].queue).doc.providerOrder = po
  /\ Sweep_Answered(1, provider[po])

\* Order.find of a cycle resolves with the open orders
Sweep_Loaded ==
  /\ Cron_Find(1)
  /\ proc'[1].note # "find"

\* the database accepts the save of the order with provider order id po
Sweep_Persists(po) ==
  /\ At(1, "sweep", "save")
  /\ Head(proc[1].queue).doc.providerOrder = po
  /\ Sweep_Save(1)
  /\ proc'[1].pc = "findUser"

\* The timer keeps firing, a running cycle keeps taking its steps, and a
\* status call, a query or a save that is made again and again eventually
\* succeeds.
FairSweep ==
  /\ WF_vars(Cron_Tick(1))
  /\ WF_vars(Cron_Find(1))
  /\ WF_vars(Sweep_Status(1))
  /\ WF_vars(Sweep_Save(1))
  /\ WF_vars(Sweep_FindUser(1))
  /\ WF_vars(Sweep_Notify(1))
  /\ WF_vars(Sweep_Mail(1))
  /\ SF_vars(Sweep_Loaded)
  /\ \A po \in 1..LiveOrders : SF_vars(Sweep_Succeeds(po)) /\ SF_vars(Sweep_Persists(po))

SpecLive == InitOpen(LiveOrders) /\ [][NextLive]_vars /\ FairSweep

\* the steps of a cycle started by the timer
CycleStep(p) ==
  \/ Cron_Tick(p)
  \/ Cron_Find(p)
  \/ Sweep_Status(p)
  \/ Sweep_Save(p)
  \/ Sweep_FindUser(p)
  \/ Sweep_Notify(p)
  \/ Sweep_Mail(p)

\* The job for ever when one status call, made by a cycle of worker 1, is never
\* answered; the timer goes on starting cycles, which run on worker 2.
NextHang == CycleStep(1) \/ Sweep_Silent(1) \/ CycleStep(2)

\* the timer keeps firing and every step that can be taken is taken
FairHang ==
  \A p \in Workers :
    /\ WF_vars(Cron_Tick(p))
    /\ WF_vars(Cron_Find(p))
    /\ WF_vars(Sweep_Status(p))
    /\ WF_vars(Sweep_Save(p))
    /\ WF_vars(Sweep_FindUser(p))
    /\ WF_vars(Sweep_Notify(p))
    /\ WF_vars(Sweep_Mail(p))

SpecHang == InitOpen(LiveOrders) /\ [][NextHang]_vars /\ FairHang

\* ------------------------------------------------------------- properties
IsTerminal(status) == status \in {"Completed", "Rejected"}
Quiet == \A p \in Workers : ~Busy(p)
\* the worker that takes the request arriving in this step
Starter == IF Busy(1) THEN 2 ELSE 1
Arrives(op) == ncalls' = ncalls + 1 /\ proc'[Starter].op = op
Answered(p, op, res) == proc[p].pc = "done" /\ proc[p].op = op /\ proc[p].res = res
ApprovalOps == {"orderConfirm", "orderReject"}

\* C1 (requests handled one after the other): the first confirm or reject of a
\* pending manual order decides its terminal status (Completed for confirm,
\* Rejected for reject); a terminal order never changes again; and every confirm
\* or reject that arrives for a terminal order writes nothing when it loads the
\* order and is answered with an error as soon as the order is loaded, leaving
\* orders, transactions, balances and notifications unchanged.
C1_TerminalOnce ==
  [][ /\ \A o \in 1..Len(orders) :
           (orders[o].provider = "manual" /\ IsTerminal(orders[o].status))
             => orders'[o] = orders[o]
      /\ \A op \in ApprovalOps :
           (Arrives(op) /\ proc'[Starter].id <= Len(orders))
             => /\ proc'[Starter].pc = "populate"
                /\ UNCHANGED <<orders, txns, balance, notifs>>
      /\ \A p \in Workers :
           (proc[p].op \in ApprovalOps /\ proc[p].pc = "populate" /\ proc'[p].pc # "populate")
             => LET o == proc[p].id IN
                /\ (orders[o].provider = "manual" /\ IsTerminal(orders[o].status))
                     => /\ proc'[p].pc = "done" /\ proc'[p].res = "400"
                        /\ UNCHANGED <<orders, txns, balance, notifs>>
                /\ AwaitingApproval(orders[o]) => proc'[p].pc # "done"
      /\ \A p \in Workers :
           (proc[p].pc = "mail" /\ proc[p].op \in ApprovalOps /\ proc'[p].pc = "done")
             => /\ proc'[p].res = "ok"
                /\ orders'[proc[p].id].status =
                     (IF proc[p].op = "orderConfirm" THEN "Completed" ELSE "Rejected")
    ]_vars

\* C1 witness: an order was confirmed and a later reject of it was answered with an error
C1_Witness ==
  \E o \in 1..Len(orders) :
    /\ orders[o].status = "Completed"
    /\ Answered(1, "orderReject", "400") /\ proc[1].id = o

\* C2: concurrent confirm/reject calls on one pending manual order: at most one
\* of them succeeds, the charge is deducted at most once, and once the calls
\* have ended the order and its transaction agree (never Completed with a
\* failed transaction, never Rejected with a completed transaction or a
\* deducted balance).
C2_AtMostOneSucceeds ==
  /\ ~(/\ proc[1].pc = "done" /\ proc[2].pc = "done"
       /\ proc[1].op \in ApprovalOps /\ proc[2].op \in ApprovalOps
       /\ proc[1].res = "ok" /\ proc[2].res = "ok"
       /\ proc[1].id = proc[2].id)
  /\ \A t \in 1..Len(txns) : txns[t].type = "order" => applied[t] <= 1
  /\ Quiet =>
       \A o \in 1..Len(orders) :
         LET t == TxnByReference(o) IN
         t # 0 =>
           /\ ~(orders[o].status = "Completed" /\ txns[t].status = "failed")
           /\ ~(orders[o].status = "Rejected"
                  /\ (txns[t].status = "completed" \/ applied[t] > 0))

\* C3: an order or deposit transaction is completed exactly when its amount
\* has been moved into (deposit) or out of (order) the owner's balance, in
\* every state, also between the writes of a handler and after a failed step.
C3_StatusMirrorsBalance ==
  \A t \in 1..Len(txns) :
    txns[t].type \in {"order", "deposit"} =>
      (txns[t].status = "completed" <=> applied[t] >= 1)

\* C4: while no admin adjustment was made, no balance is negative and the
\* confirms of manual orders never deduct more than the user's funds (two
\* confirms whose charges together exceed the balance do not both deduct).
C4_NoOverdraw ==
  ~adjusted => \A u \in Users : balance[u] >= 0 /\ ledger[u] >= 0

\* C5: once the concurrently running balance operations have ended (all of
\* them reported success), each balance equals the initial balance plus the
\* sum of the deltas they applied: no update is lost.
C5_NoLostUpdate ==
  Quiet => \A u \in Users : balance[u] = ledger[u]

\* C6 (requests handled one after the other): a confirmed deposit is completed
\* and the balance is the balance before the request plus the deposit's amount;
\* a rejected deposit is failed and the balance is the balance before the request.
C6_DepositOutcome ==
  \A p \in Workers :
    /\ Answered(p, "depositConfirm", "ok") =>
         /\ txns[proc[p].id].status = "completed"
         /\ balance[txns[proc[p].id].userId] = proc[p].b0 + txns[proc[p].id].amount
    /\ Answered(p, "depositReject", "ok") =>
         /\ txns[proc[p].id].status = "failed"
         /\ balance[txns[proc[p].id].userId] = proc[p].b0

\* C6 witness: the pending deposit of the funded user was confirmed
C6_Witness ==
  /\ Answered(1, "depositConfirm", "ok")
  /\ proc[1].b0 = SeedBalance
  /\ balance[proc[1].usr] = SeedBalance + txns[proc[1].id].amount

OrderNumbers == {orders[i].orderNumber : i \in 1..Len(orders)}
\* the numbers held by creations that have allocated and not yet inserted
InFlightNumbers == {proc[p].rd : p \in {q \in Workers : At(q, "createOrder", "createOrder")}}
Min(S) == CHOOSE x \in S : \A y \in S : x <= y
Contiguous(S) == S = {} \/ S = Min(S)..Max(S)

\* C7 as claimed: the order numbers of the persisted orders are pairwise distinct
\* and form a contiguous range, also after a creation failed behind the counter.
C7_NoGapsEver ==
  /\ Cardinality(OrderNumbers) = Len(orders)
  /\ Quiet => Contiguous(OrderNumbers)

\* C7 amended: the order numbers of the persisted orders are pairwise distinct,
\* and the allocator hands out every value from 1 to the counter exactly once:
\* each is the number of one persisted order, or is held by a creation still
\* in flight, or was lost by a creation that failed after the increment.  So
\* the persisted numbers are the contiguous range 1..counter whenever no
\* creation is in flight and none has failed after its increment.
C7_AllocatorGapFree ==
  /\ Cardinality(OrderNumbers) = Len(orders)
  /\ Cardinality(InFlightNumbers) =
       Cardinality({q \in Workers : At(q, "createOrder", "createOrder")})
  /\ OrderNumbers \cup InFlightNumbers \cup burnt = 1..counter
  /\ OrderNumbers \cap InFlightNumbers = {}
  /\ OrderNumbers \cap burnt = {}
  /\ InFlightNumbers \cap burnt = {}
  /\ (burnt = {} /\ InFlightNumbers = {}) => OrderNumbers = 1..counter

\* C7 witness: two creations ran concurrently and both inserted their order
C7_Witness ==
  /\ At(1, "createOrder", "createTxn") /\ At(2, "createOrder", "createTxn")
  /\ orders[proc[1].id].orderNumber # orders[proc[2].id].orderNumber

\* C8: the deposit transactions carry pairwise distinct order numbers.
C8_DepositNumbersDistinct ==
  \A i, j \in 1..Len(txns) :
    (i # j /\ txns[i].type = "deposit" /\ txns[j].type = "deposit")
      => txns[i].orderNumber # txns[j].orderNumber

\* the order a worker of the reconciliation is about to save
Target(p) == IF proc[p].op = "sweep" THEN Head(proc[p].queue).id ELSE proc[p].id
\* the database accepts the save of worker p in this step
Saves(p) ==
  /\ proc[p].op \in SyncOps /\ proc[p].pc = "save" /\ proc'[p].pc # "save"
  /\ IF proc[p].op = "sweep" THEN proc'[p].pc = "findUser"
       ELSE proc'[p].note = ""

\* C9: applying an answer whose status equals the stored status writes no field
\* of the order (whatever its charge, start_count, remains or currency) and
\* leads to no notification, for the sweep and both refresh routes.
C9_SameStatusNoWrite ==
  [][ \A p \in Workers :
        (Saves(p) /\ proc[p].st.status = orders[Target(p)].status)
          => /\ orders' = orders
             /\ notifs' = notifs
             /\ proc'[p].pc \notin {"notify", "findUser"}
    ]_vars

\* C10: for the sweep and both refresh routes, applying an answer whose status
\* differs from the loaded one persists the new status and is followed by the
\* notification part of the handler (for the sweep: the lookup of the owner, then
\* the notification), where the insert, when the database accepts it, creates
\* exactly one notification old -> new for the owner of the order.
C10_ChangeNotifiesOnce ==
  [][ \A p \in Workers :
        /\ (Saves(p) /\ StatusChanged(proc[p].st, orders[Target(p)].status))
             => /\ orders'[Target(p)].status = proc[p].st.status
                /\ proc'[p].pc = (IF proc[p].op = "sweep" THEN "findUser" ELSE "notify")
        /\ (proc[p].op \in SyncOps /\ proc[p].pc = "notify"
              /\ proc'[p].pc \in {"findUser", "mail"})
             => /\ Len(notifs') = Len(notifs) + 1
                /\ notifs'[Len(notifs')].ref = Target(p)
                /\ notifs'[Len(notifs')].userId = orders[Target(p)].userId
                /\ notifs'[Len(notifs')].new = proc[p].st.status
    ]_vars

\* C11: for each order, no status transition old -> new is notified twice, under
\* any interleaving of sweep cycles and refreshes.  (The stored status of an
\* order can make the same transition a second time only after the provider
\* has changed its answer three times; two equal notices before that report
\* one transition twice.)
C11_NoDuplicateNotice ==
  nprov < 3 =>
    \A i, j \in 1..Len(notifs) :
      (i # j /\ notifs[i].old # "" /\ notifs[i].ref = notifs[j].ref)
        => ~(notifs[i].old = notifs[j].old /\ notifs[i].new = notifs[j].new)

Statuses == {a.status : a \in Answers}

\* C12: under fairness, for every order with a provider id: if the status the
\* provider reports stays at S from some point on, the stored status is
\* eventually S and stays S, whatever statuses the provider reported before.
C12_Converges ==
  \A o \in 1..LiveOrders : \A S \in Statuses :
    <>[](provider[orders[o].providerOrder].status = S) => <>[](orders[o].status = S)

\* C13: when a cycle of the job has ended, it ended without throwing - also
\* when its Order.find was rejected - and, when it had loaded the open orders,
\* every order with a provider id carries the provider's status unless its own
\* status call gave no status or its own save was refused by the database: a
\* failed status call (or a refused save) for one order keeps no other order
\* from being updated and persisted.
C13_FailureIsolated ==
  \A p \in Workers :
    (proc[p].op = "sweep" /\ proc[p].pc = "done") =>
      /\ proc[p].res = "ok"
      /\ proc[p].note # "find" =>
           \A o \in 1..Len(orders) :
             (orders[o].provider = "secsers" /\ orders[o].providerOrder # 0
                /\ o \notin proc[p].skipped /\ o \notin proc[p].unsaved)
               => orders[o].status = provider[orders[o].providerOrder].status

\* C13 witness: the call for the 2nd of three open orders failed; the 1st and the
\* 3rd were moved from Pending to the provider's status, and the cycle ended
C13_Witness ==
  /\ proc[1].op = "sweep" /\ proc[1].pc = "done" /\ proc[1].skipped = {2}
  /\ proc[1].unsaved = {} /\ proc[1].note = ""
  /\ orders[1].status = "Completed" /\ orders[2].status = "Pending"
  /\ orders[3].status = "In progress"
  /\ provider[2].status = "Completed"

\* C14: the step in which a handler sends the mail never fails the operation
\* and undoes nothing: whatever the outcome of sendMail, the orders,
\* transactions and balances stay as persisted, a request is answered with
\* success, and the sweep goes on to its next order.
C14_MailFailureHarmless ==
  [][ \A p \in Workers :
        (proc[p].pc = "mail" /\ proc'[p].pc # "mail")
          => /\ UNCHANGED <<orders, txns, balance>>
             /\ proc'[p].pc = "done" => proc'[p].res = "ok"
             /\ (proc[p].op = "sweep" /\ Len(proc[p].queue) > 1)
                  => (proc'[p].pc = "status" /\ proc'[p].queue = Tail(proc[p].queue))
    ]_vars

\* the Transaction status that goes with the status of a manual order
LockstepStatus(status) ==
  CASE status = PendingApproval -> "pending"
    [] status = "Completed" -> "completed"
    [] status = "Rejected" -> "failed"
    [] OTHER -> ""

\* C15: in every state, also between the writes of a handler and after a
\* failed step, each manual order (pending, Completed or Rejected) has exactly
\* one Transaction with its reference, and the status of that Transaction is
\* pending, completed or failed accordingly.
C15_OneTxnInLockstep ==
  \A o \in 1..Len(orders) :
    orders[o].provider = "manual" =>
      LET hits == {t \in 1..Len(txns) : txns[t].reference = o} IN
      /\ Cardinality(hits) = 1
      /\ \A t \in hits : txns[t].status = LockstepStatus(orders[o].status)

\* C16: a confirm or reject for an order that does not exist is answered 404 by
\* the query that looks the order up; one whose loaded order is not manual or
\* not in 'Pending Admin Approval' is answered 400 as soon as the loaded order
\* is complete (the populate query).  Neither of the two steps writes: orders,
\* transactions, balances, notifications and the counter are unchanged, so
\* the precondition is checked before the handler's first write.
C16_GuardBeforeWrite ==
  [][ \A op \in ApprovalOps :
        /\ Arrives(op) =>
             LET o == proc'[Starter].id IN
             /\ UNCHANGED <<orders, txns, balance, notifs, counter>>
             /\ IF o > Len(orders)
                  THEN proc'[Starter].pc = "done" /\ proc'[Starter].res = "404"
                  ELSE proc'[Starter].pc = "populate" /\ proc'[Starter].doc = orders[o]
        /\ \A p \in Workers :
             (proc[p].op = op /\ proc[p].pc = "populate" /\ proc'[p].pc # "populate") =>
               /\ UNCHANGED <<orders, txns, balance, notifs, counter>>
               /\ (proc[p].doc.provider # "manual" \/ proc[p].doc.status # PendingApproval)
                    => proc'[p].pc = "done" /\ proc'[p].res = "400"
    ]_vars

\* C16 witness: the reject of a provider order was refused while a confirm of a
\* manual order was under way
C16_Witness ==
  /\ proc[1].op = "orderConfirm" /\ Busy(1)
  /\ Answered(2, "orderReject", "400")
  /\ orders[proc[2].id].provider = "secsers"

\* C17 (requests handled one after the other): confirming a pending manual
\* order of charge c for a user whose balance b is at least c leaves the balance
\* at b - c, the order Completed and its Transaction completed.
C17_ConfirmDeducts ==
  \A p \in Workers :
    (Answered(p, "orderConfirm", "ok") /\ proc[p].b0 >= orders[proc[p].id].charge) =>
      LET t == TxnByReference(proc[p].id) IN
      /\ balance[orders[proc[p].id].userId] = proc[p].b0 - orders[proc[p].id].charge
      /\ orders[proc[p].id].status = "Completed"
      /\ t # 0 /\ txns[t].type = "order" /\ txns[t].status = "completed"

\* C17 witness: the funded user's first order was confirmed and paid
C17_Witness ==
  /\ Answered(1, "orderConfirm", "ok")
  /\ proc[1].b0 = SeedBalance
  /\ balance[proc[1].usr] = SeedBalance - Max(Prices)

\* C18: a confirm reports success only when the balance covered the charge; a
\* balance lower than the charge is reported to the caller, and the Transaction
\* is completed only together with the deduction.
C18_InsufficientReported ==
  \A p \in Workers :
    Answered(p, "orderConfirm", "ok") =>
      /\ proc[p].b0 >= orders[proc[p].id].charge
      /\ LET t == TxnByReference(proc[p].id) IN
           (t # 0 /\ txns[t].status = "completed") => applied[t] = 1

\* C19 (requests handled one after the other): a created manual order is
\* persisted with provider manual, status 'Pending Admin Approval', charge
\* price x quantity and the counter's new value as orderNumber; exactly one
\* Transaction refers to it, of type order, pending, with the same amount; and
\* the user's balance is what it was.
C19_CreatePersists ==
  \A p \in Workers :
    Answered(p, "createOrder", "ok") =>
      LET o == orders[proc[p].id]
          hits == {t \in 1..Len(txns) : txns[t].reference = proc[p].id}
      IN /\ o.provider = "manual" /\ o.status = PendingApproval
         /\ o.userId = proc[p].usr
         /\ o.charge = proc[p].price * proc[p].qty
         /\ o.orderNumber = counter
         /\ Cardinality(hits) = 1
         /\ \A t \in hits :
              /\ txns[t].type = "order" /\ txns[t].status = "pending"
              /\ txns[t].amount = proc[p].price * proc[p].qty
              /\ txns[t].userId = proc[p].usr
              /\ applied[t] = 0
         /\ balance[proc[p].usr] = proc[p].b0

\* C19 witness: an order of two units was created after the seeded ones
C19_Witness ==
  /\ Answered(1, "createOrder", "ok")
  /\ proc[1].qty = Max(Quantities)
  /\ proc[1].id = MaxSeed + 1
  /\ orders[proc[1].id].charge = Max(Prices) * Max(Quantities)

\* C20 (requests handled one after the other): rejecting a pending manual order
\* leaves it Rejected with the given reason, or 'Rejected by admin' when none was
\* given, its Transaction failed, and the user's balance exactly as it was.
C20_RejectLeavesBalance ==
  \A p \in Workers :
    Answered(p, "orderReject", "ok") =>
      LET t == TxnByReference(proc[p].id) IN
      /\ orders[proc[p].id].status = "Rejected"
      /\ orders[proc[p].id].adminNotes =
           (IF proc[p].arg = "" THEN "Rejected by admin" ELSE proc[p].arg)
      /\ t # 0 /\ txns[t].type = "order" /\ txns[t].status = "failed" /\ applied[t] = 0
      /\ balance[orders[proc[p].id].userId] = proc[p].b0

\* C20 witness: an order of the funded user was rejected with a reason
C20_Witness ==
  /\ Answered(1, "orderReject", "ok")
  /\ proc[1].arg = "text"
  /\ orders[proc[1].id].adminNotes = "text"
  /\ balance[proc[1].usr] = SeedBalance

\* C21: an on-demand refresh (user or admin route) of an order that does not
\* exist, that the calling user does not own, that is not a provider order or
\* that has no provider order id is answered with an error (404 or 400) at once:
\* the handler never gets to the status call, and neither the orders nor the
\* notifications change. A refresh whose lookup of the order is rejected by the
\* database is answered with an error at once as well (400, by the error
\* handler), and changes nothing.
C21_GuardedRefresh ==
  [][\A op \in {"userRefresh", "adminRefresh"} :
       Arrives(op) =>
         IF proc'[Starter].note = "find"
           THEN /\ proc'[Starter].pc = "done"
                /\ proc'[Starter].res = "400"
                /\ UNCHANGED <<orders, notifs, balance, txns>>
           ELSE
             LET o == proc'[Starter].id
                 missing == o > Len(orders)
                 foreign == op = "userRefresh" /\ ~missing /\ orders[o].userId # proc'[Starter].usr
                 unfit == ~missing /\ (orders[o].provider # "secsers" \/ orders[o].providerOrder = 0)
             IN (missing \/ foreign \/ unfit) =>
                  /\ proc'[Starter].pc = "done"
                  /\ proc'[Starter].res = (IF missing \/ foreign THEN "404" ELSE "400")
                  /\ UNCHANGED <<orders, notifs, balance, txns>>]_vars

\* a user refresh of an existing provider order with a provider id, made by a
\* caller who does not own it, was answered 404
C21_Witness ==
  /\ proc[1].op = "userRefresh" /\ proc[1].pc = "done" /\ proc[1].res = "404"
  /\ proc[1].id <= Len(orders) /\ orders[proc[1].id].userId # proc[1].usr
  /\ orders[proc[1].id].provider = "secsers" /\ orders[proc[1].id].providerOrder # 0

\* C22: when the provider call of an on-demand refresh fails - the call is
\* rejected, or it answers with an error body or any body without a status -
\* the caller gets an error and the body is never used as a snapshot: a refresh
\* that has answered successfully holds a body with a status.
C22_FailedFetchIsError ==
  \A p \in Workers :
    (proc[p].op \in {"userRefresh", "adminRefresh"} /\ proc[p].pc = "done" /\ proc[p].res = "ok")
      => proc[p].st.status # ""

\* C23: a user's balance changes only in the balance write of a deposit
\* confirmation, of a manual-order confirmation or of an admin adjustment;
\* every other step - order creation, deposit creation, deposit rejection,
\* order rejection, refresh, refill, the sweep, reading notifications - leaves
\* all balances as they are, the registration routes and the change of
\* password included; a user that is created starts with the balance 0.
C23_BalanceFrame ==
  [][/\ DOMAIN balance \subseteq DOMAIN balance'
     /\ \A u \in DOMAIN balance' \ DOMAIN balance : balance'[u] = 0
     /\ (\E u \in DOMAIN balance : balance'[u] # balance[u]) =>
          \E p \in Workers :
            /\ proc[p].op \in {"depositConfirm", "orderConfirm", "adjust"}
            /\ proc[p].pc = "saveUser"
            /\ proc'[p].pc # "saveUser"
            /\ \A u \in DOMAIN balance : balance'[u] # balance[u] => u = proc[p].usr]_vars

\* a manual order was rejected and a sweep changed the status of a provider
\* order while the balance of the user is the seeded one
C23_Witness ==
  /\ \E o \in 1..Len(orders) : orders[o].status = "Rejected"
  /\ \E n \in 1..Len(notifs) : notifs[n].title = "Order status updated"
  /\ \A u \in Users : balance[u] \in {0, SeedBalance}

\* C24 (requests handled one after the other, any awaited call may throw): an
\* admin adjustment by the signed amount a that succeeds has changed the
\* balance by exactly a and recorded one completed adjustment Transaction of
\* amount |a|; the balance change and the Transaction come together or not at
\* all, so an adjustment that ends in an error leaves the balance as it was;
\* an invalid amount or an unknown user changes nothing.
C24_AdjustAllOrNothing ==
  [][\A p \in Workers :
       /\ (Arrives("adjust") /\ p = Starter /\ proc'[p].pc = "done")
            => proc'[p].res \in {"400", "404"} /\ UNCHANGED <<balance, txns>>
       /\ (At(p, "adjust", "createTxn") /\ proc'[p].pc = "done") =>
            IF proc'[p].res = "ok"
              THEN /\ balance'[proc[p].usr] = proc[p].rd + proc[p].amt
                   /\ txns' = Append(txns, AdjustTxn(proc[p].usr, proc[p].amt))
                   /\ AdjustTxn(proc[p].usr, proc[p].amt).amount = Abs(proc[p].amt)
              ELSE /\ balance'[proc[p].usr] = proc[p].rd
                   /\ txns' = txns]_vars

\* C25: whatever the interleaving of confirm and reject calls on one deposit
\* Transaction, its amount is written into the balance at most once, and once
\* the calls have ended a deposit whose status is failed has never been
\* credited.
C25_DepositCreditedOnce ==
  \A t \in 1..Len(txns) :
    txns[t].type = "deposit" =>
      /\ applied[t] <= 1
      /\ (Quiet /\ txns[t].status = "failed") => applied[t] = 0

\* C26: when a sweep iteration and an on-demand refresh of the same provider
\* order have interleaved and both have ended, the stored status of the order
\* is the status the provider reported at the later of their two fetches
\* (fetches made at the same provider state report the same status). The
\* case stated is the one of an order that the provider has meanwhile moved
\* out of the open statuses, where the later fetch is the one that counts, and
\* in which the database has refused no query and no save of either.
C26_LaterFetchWins ==
  (/\ Quiet
   /\ \E p, q \in Workers :
        proc[p].op = "sweep" /\ proc[q].op \in {"userRefresh", "adminRefresh"}
   /\ \A p \in Workers : proc[p].res = "ok" /\ proc[p].unsaved = {} /\ proc[p].note = "")
  => \A o \in 1..Len(orders) :
       LET G == {g \in UNION {proc[p].got : p \in Workers} : g.id = o}
           fetchers == {p \in Workers : \E g \in proc[p].got : g.id = o}
           last == {g \in G : \A h \in G : h.at <= g.at}
       IN (fetchers = Workers /\ \A g \in last : g.status \notin OpenStatuses) =>
            \A g \in last : orders[o].status = g.status

\* C27 (cycles of the job one after the other): a save that applies a
\* snapshot writes each of charge, start_count and remains that is present in
\* the snapshot - a present zero like any other value - and currency when
\* present, and leaves a field that is absent at its stored value.
C27_PresentFieldsWritten ==
  [][\A p \in Workers :
       Saves(p) =>
         LET o == Target(p)
             st == proc[p].st
         IN /\ \A f \in {"charge", "start_count", "remains"} :
                 orders'[o][f] = IF st[f].t # "none" THEN st[f].v ELSE orders[o][f]
            /\ orders'[o].currency = IF st.currency # "" THEN st.currency ELSE orders[o].currency]_vars

\* C28: every sweep cycle terminates: a cycle that has started always comes to
\* its end, because a status call that never answers is cut off by a timeout
\* and counted as a failed fetch.
C28_CycleTerminates ==
  \A p \in Workers : (proc[p].op = "sweep" /\ Busy(p)) ~> ~Busy(p)

\* C29 as claimed: the job only ever modifies orders whose stored status is
\* Pending or In progress: whenever the database accepts a save of a cycle, the
\* order it writes is stored, at that moment, with an open status (and with a
\* provider order id).
C29_StoredOpenAtWrite ==
  [][\A p \in Workers :
       (proc[p].op = "sweep" /\ proc[p].pc = "save" /\ proc'[p].pc = "findUser") =>
         LET o == Head(proc[p].queue).id IN
           /\ orders[o].providerOrder # 0
           /\ orders[o].status \in {"Pending", "In progress"}]_vars

\* C29: the sweep only touches orders that have a provider order id and were
\* stored as Pending or In progress when the cycle loaded them: every order a
\* cycle polls, saves or notifies about was loaded as such an order and is not
\* a manual one, a step of a cycle changes no other order, and a notification
\* it creates is about the order it saved. Manual orders (awaiting approval,
\* Completed or Rejected) and orders without provider order id are therefore
\* never changed by the sweep and never cause a sweep notification.
C29_SweepFrame ==
  [][\A p \in Workers :
       (proc[p].op = "sweep" /\ Busy(p) /\ proc[p].pc # "find") =>
         LET e == Head(proc[p].queue) IN
           /\ \A i \in 1..Len(proc[p].queue) :
                 /\ proc[p].queue[i].doc.providerOrder # 0
                 /\ proc[p].queue[i].doc.status \in {"Pending", "In progress"}
                 /\ orders[proc[p].queue[i].id].provider # "manual"
                 /\ orders[proc[p].queue[i].id].providerOrder # 0
           /\ proc'[p] # proc[p] =>
                 /\ \A o \in 1..Len(orders) : orders'[o] # orders[o] => o = e.id
                 /\ notifs' # notifs =>
                       /\ Len(notifs') = Len(notifs) + 1
                       /\ notifs'[Len(notifs')].ref = e.id
                       /\ notifs'[Len(notifs')].title = "Order status updated"]_vars

\* a cycle has ended after changing a provider order and notifying about it;
\* the order without provider id is as it was, and manual orders awaiting
\* approval, Completed and Rejected are stored, one of them decided by a
\* request handled beside the cycle; no notification of the job is about them
C29_Witness ==
  /\ \E p \in Workers : Answered(p, "sweep", "ok") /\ proc[p].note = ""
  /\ \E q \in Workers : proc[q].op \in ApprovalOps /\ Answered(q, proc[q].op, "ok")
  /\ \E n \in 1..Len(notifs) : notifs[n].title = "Order status updated" /\ notifs[n].ref = 1
  /\ orders[1].status = "Completed"
  /\ \E o \in 1..Len(orders) : orders[o].providerOrder = 0 /\ orders[o].status = "Pending"
  /\ \A st \in {"Completed", "Rejected"} :
       \E o \in 1..Len(orders) : orders[o].provider = "manual" /\ orders[o].status = st
  /\ \A n \in 1..Len(notifs) :
       notifs[n].title = "Order status updated" => orders[notifs[n].ref].provider = "secsers"

\* the order Transaction of a manual order carries the order's number; order
\* numbers are pairwise distinct; the deposit numbering of the pre-save hook
\* has touched no order Transaction and no adjustment Transaction
NumbersConsistent ==
  /\ \A i, j \in 1..Len(orders) : i # j => orders[i].orderNumber # orders[j].orderNumber
  /\ \A t \in 1..Len(txns) :
       /\ (txns[t].type = "order" /\ txns[t].reference \in 1..Len(orders))
            => txns[t].orderNumber = orders[txns[t].reference].orderNumber
       /\ txns[t].type = "adjustment" => txns[t].orderNumber = 0

\* C30 as claimed: in every reachable state the order Transaction of a manual
\* order carries the order's orderNumber, the adjustment Transactions carry no
\* number, and the orderNumbers of the orders are pairwise distinct and
\* increase with creation order (an order stored later has a greater number).
C30_NumbersFollowCreation ==
  /\ NumbersConsistent
  /\ \A i, j \in 1..Len(orders) : i < j => orders[i].orderNumber < orders[j].orderNumber

\* C30 amended: the numbers are consistent as above in every reachable state,
\* and they increase with the order of allocation: the number a creation gets
\* from the counter is greater than the number of every stored order and of
\* every creation that has allocated and not yet stored its order.
C30_NumbersFollowAllocation ==
  [][/\ NumbersConsistent
     /\ NumbersConsistent'
     /\ \A p \in Workers :
          (At(p, "createOrder", "counter") /\ proc'[p].pc = "createOrder") =>
            \A n \in OrderNumbers \cup InFlightNumbers : n < proc'[p].rd]_vars

\* two creations overlapped and the order with the greater number was stored
\* first; each order Transaction carries its order's number
C30_Witness ==
  /\ \A p \in Workers : Answered(p, "createOrder", "ok")
  /\ Len(orders) >= 2
  /\ orders[Len(orders)].orderNumber < orders[Len(orders) - 1].orderNumber
  /\ \A p \in Workers :
       \E t \in 1..Len(txns) :
         /\ txns[t].type = "order" /\ txns[t].reference = proc[p].id
         /\ txns[t].orderNumber = orders[proc[p].id].orderNumber
====
